---- MODULE Spec2Model ----
(***************************************************************************)
(* A model of the dashie_staging client: GoogleAPIClient.makeRequest (the  *)
(* retrying HTTP wrapper of js/google-apis/google-api-client.js) and the   *)
(* AuthManager of js/auth/auth-manager.js.                                 *)
(***************************************************************************)
EXTENDS Integers, Sequences, FiniteSets, TLC

VARIABLES
    \* ---- GoogleAPIClient.makeRequest ----
    rq_pc,        \* position of the one makeRequest call that is modelled
    attempt,      \* the loop variable of makeRequest
    options,      \* the options argument of the call
    token,        \* what authManager.getGoogleAccessToken() returns now (0: none)
    lastError,    \* makeRequest's lastError: NoError, or the status of the error (0: none)
    thrown,       \* the status of the error makeRequest threw (0: none), NoError before
    log,          \* what the call did so far, in order
    \* ---- AuthManager ----
    isWebView,            \* this.isWebView
    hasNativeAuth,        \* this.hasNativeAuth
    isFireTV,             \* this.isFireTV
    currentUser,          \* this.currentUser (Null: null)
    isSignedIn,           \* this.isSignedIn
    nativeAuthAttempted,  \* this.nativeAuthAttempted
    savedUser,            \* the user AuthStorage holds (Null: none)
    ui,                   \* what AuthUI was last told to show
    init_pc,              \* position of init()
    timers,               \* pending 3 s timeouts set by signIn, oldest first: for each,
                          \* whether a native auth result arrived since it was set
    ftvDevice,            \* runs of handleFireTVAuthFailure awaiting the device flow
    ftvFallback,          \* runs of handleFireTVAuthFailure awaiting the fallback
    signInDevice,         \* runs of signIn awaiting the device flow
    signInWeb,            \* runs of signIn awaiting webAuth.signIn()
    now,                  \* Date.now()
    last,                 \* the step that ran last, and what it was given
    \* ---- the settings modal ----
    settings,             \* what settingsController.getAllSettings() returns
    stored,               \* the settings that storage holds
    originalSettings,     \* the snapshot showSettings took
    isSettingsVisible,    \* isSettingsVisible
    overlay,              \* the .settings-overlay element: "none", "active", "closing"
    currentCategory,      \* currentCategory
    currentFocus,         \* currentFocus: [type, index]
    sleepOpen,            \* the sleep panel's section content is displayed
    bodyTheme,            \* the theme applyTheme last applied
    atShow,               \* the settings when showSettings last opened the modal
    st_last,              \* the settings handler that ran last
    \* ---- GoogleAPIClient.waitForRateLimit, with calls in flight together ----
    rl_now,               \* Date.now(), in ms
    lastRequestTime,      \* this.lastRequestTime
    rl_pc,                \* position of each makeRequest call
    rl_deadline,          \* when the timeout each call waits on is due
    fetchTimes,           \* the times at which fetch was called, in order
    \* ---- the methods of GoogleAPIClient built on makeRequest ----
    api_op,               \* the method that was called
    api_pc,               \* the await it is at
    api_in,               \* what its makeRequest calls gave so far, in order
    targetCalendars,      \* getAllCalendarEvents: targetCalendars
    calIdx,               \* getAllCalendarEvents: position of the for loop
    allEvents,            \* getAllCalendarEvents: allEvents
    results,              \* testAccess: results
    api_result            \* what the method returned or threw

rqVars == <<rq_pc, attempt, options, token, lastError, thrown, log>>
envVars == <<isWebView, hasNativeAuth, isFireTV>>
userVars == <<currentUser, isSignedIn, savedUser>>
pendingVars == <<timers, ftvDevice, ftvFallback, signInDevice, signInWeb>>
authVars == <<envVars, userVars, nativeAuthAttempted, ui, init_pc, pendingVars, now, last>>
setVars == <<settings, stored, originalSettings, isSettingsVisible, overlay,
             currentCategory, currentFocus, sleepOpen, bodyTheme, atShow, st_last>>
rateVars == <<rl_now, lastRequestTime, rl_pc, rl_deadline, fetchTimes>>
apiVars == <<api_op, api_pc, api_in, targetCalendars, calIdx, allEvents, results,
             api_result>>
vars == <<rqVars, authVars, setVars, rateVars, apiVars>>

\* what a step of one component leaves alone
notRequest == <<authVars, setVars, rateVars, apiVars>>
notAuth == <<rqVars, setVars, rateVars, apiVars>>
notSettings == <<rqVars, authVars, rateVars, apiVars>>
notRate == <<rqVars, authVars, setVars, apiVars>>
notApi == <<rqVars, authVars, setVars, rateVars>>

\* ------------------------------------------------------------------------
\* Program constants: this.retryConfig
maxRetries == 3
baseDelay == 1000
maxDelay == 10000
\* the fixed pause after a successful token refresh
refreshPause == 1000

\* Bounds of the model: the access tokens there are, and the length of the
\* log (a call logs at most 14 events: four per attempt that refreshes, two
\* for the last attempt)
MaxToken == 2
LogCap == 14

NoError == -1
Tokens == 1..MaxToken

\* The HTTP statuses a response may carry
Statuses == {200, 400, 401, 403, 404, 429, 500, 503}

Min(a, b) == IF a < b THEN a ELSE b

\* ------------------------------------------------------------------------
\* JavaScript objects are functions from property names to values; the
\* spread {...a, ...b} keeps b's value for a property both have.
EmptyObject == [k \in {} |-> 0]
Spread(a, b) == b @@ a
Has(o, k) == k \in DOMAIN o
Prop(o, k) == IF Has(o, k) THEN o[k] ELSE EmptyObject

Bearer(t) == <<"Bearer", t>>

\* The options the callers of makeRequest pass
OptsDefault == EmptyObject
OptsPost ==
    ("method" :> "POST") @@ ("headers" :> ("Content-Type" :> "application/json"))
        @@ ("body" :> "json")
OptsBody == ("method" :> "POST") @@ ("body" :> "json")
CallerOptions == {OptsDefault, OptsPost, OptsBody}

\* const requestOptions = { method, headers: {Authorization, Content-Type,
\*                          ...options.headers}, ...options }
RequestOptions(tok, opts) ==
    Spread(("method" :> "GET") @@
           ("headers" :> Spread(("Authorization" :> Bearer(tok)) @@
                                ("Content-Type" :> "application/json"),
                                Prop(opts, "headers"))),
           opts)

\* ------------------------------------------------------------------------
\* The log of one call
Event(e, k, n, r) == [ev |-> e, at |-> k, n |-> n, req |-> r]
AppendLog(l, e) == IF Len(l) < LogCap THEN Append(l, e) ELSE l

\* a retry test that is off by one
CanRetryInclusive(k) == k <= maxRetries

\* attempt < this.retryConfig.maxRetries
CanRetry(k) == k < maxRetries

\* a backoff that grows linearly
BackoffLinear(k) == Min(baseDelay * (k + 1), maxDelay)

\* Math.min(baseDelay * Math.pow(2, attempt), maxDelay)
BackoffDelay(k) == Min(baseDelay * 2^k, maxDelay)

\* a retry test that takes every error status for a server error
IsRetryableAnyError(s) == s >= 400

\* response.status >= 500 || response.status === 429
IsRetryableStatus(s) == s >= 500 \/ s = 429

\* a loop that forgets to count
NextAttemptStuck(k) == k

\* the for loop's attempt++
NextAttempt(k) == k + 1

RequestInit ==
    /\ rq_pc = "idle"
    /\ attempt = 0
    /\ options = OptsDefault
    /\ token \in 0..1
    /\ lastError = NoError
    /\ thrown = NoError
    /\ log = <<>>

\* A caller starts makeRequest(endpoint, options)
makeRequest(opts) ==
    /\ rq_pc = "idle"
    /\ rq_pc' = "loop"
    /\ attempt' = 0
    /\ options' = opts
    /\ UNCHANGED <<token, lastError, thrown, log>>
    /\ UNCHANGED notRequest

\* throw error: the call ends with an error of status s (0: no status)
Throw(s, l) ==
    /\ rq_pc' = "thrown"
    /\ thrown' = s
    /\ lastError' = s
    /\ log' = l
    /\ UNCHANGED <<attempt, options, token>>

\* a catch block that rethrows whatever reaches it
CatchRethrow(s, l) == Throw(s, l)

\* the catch block: an error with status s (0: none) reached it
Catch(s, l) ==
    IF s = 0 /\ CanRetry(attempt)
    THEN /\ rq_pc' = "waiting"
         /\ lastError' = s
         /\ log' = AppendLog(l, Event("wait", attempt, BackoffDelay(attempt), EmptyObject))
         /\ UNCHANGED <<attempt, options, token, thrown>>
    ELSE Throw(s, l)

\* One pass of the loop up to the fetch: the loop test (when it fails, the
\* throw after the loop), getAccessToken, the request options, and the call
\* of fetch
AttemptStart ==
    /\ rq_pc = "loop"
    /\ UNCHANGED notRequest
    /\ IF attempt > maxRetries
       THEN Throw(IF lastError = NoError THEN 0 ELSE lastError, log)
       ELSE IF token = 0
       THEN Catch(0, AppendLog(log, Event("neterr", attempt, 1, EmptyObject)))
       ELSE /\ rq_pc' = "fetching"
            /\ log' = AppendLog(log, Event("fetch", attempt, token,
                                           RequestOptions(token, options)))
            /\ UNCHANGED <<attempt, options, token, lastError, thrown>>

\* fetch rejected: a network-level failure
FetchReject ==
    /\ rq_pc = "fetching"
    /\ UNCHANGED notRequest
    /\ Catch(0, AppendLog(log, Event("neterr", attempt, 2, EmptyObject)))

\* fetch resolved with status s, but reading the body (response.json() of an
\* ok response, response.text() of another) rejected
BodyReject(s) ==
    /\ rq_pc = "fetching"
    /\ UNCHANGED notRequest
    /\ Catch(0, AppendLog(log, Event("neterr", attempt, 3, EmptyObject)))

\* fetch resolved with status s and the body was read
FetchResolve(s) ==
    /\ rq_pc = "fetching"
    /\ UNCHANGED notRequest
    /\ LET l == AppendLog(log, Event("resp", attempt, s, EmptyObject)) IN
       IF s = 200
       THEN /\ rq_pc' = "returned"
            /\ log' = l
            /\ UNCHANGED <<attempt, options, token, lastError, thrown>>
       ELSE IF s = 401
       THEN IF CanRetry(attempt)
            THEN /\ rq_pc' = "refreshing"
                 /\ log' = AppendLog(l, Event("refresh", attempt, 0, EmptyObject))
                 /\ UNCHANGED <<attempt, options, token, lastError, thrown>>
            ELSE Catch(s, l)
       ELSE IF s = 403
       THEN Catch(s, l)
       ELSE IF IsRetryableStatus(s) /\ CanRetry(attempt)
       THEN /\ rq_pc' = "waiting"
            /\ lastError' = s
            /\ log' = AppendLog(l, Event("wait", attempt, BackoffDelay(attempt), EmptyObject))
            /\ UNCHANGED <<attempt, options, token, thrown>>
       ELSE Catch(s, l)

\* authManager.refreshGoogleAccessToken() resolved: the manager now holds t
RefreshResolve(t) ==
    /\ rq_pc = "refreshing"
    /\ UNCHANGED notRequest
    /\ rq_pc' = "waiting"
    /\ token' = t
    /\ log' = AppendLog(log, Event("wait", attempt, refreshPause, "token" :> t))
    /\ UNCHANGED <<attempt, options, lastError, thrown>>

\* a failed refresh that is taken for a network error: back off and retry
RefreshRejectRetries ==
    /\ rq_pc = "refreshing"
    /\ UNCHANGED notRequest
    /\ rq_pc' = "waiting"
    /\ lastError' = 401
    /\ log' = AppendLog(AppendLog(log, Event("refreshfail", attempt, 0, EmptyObject)),
                        Event("wait", attempt, BackoffDelay(attempt), EmptyObject))
    /\ UNCHANGED <<attempt, options, token, thrown>>

\* authManager.refreshGoogleAccessToken() rejected: throw the 401 error
RefreshReject ==
    /\ rq_pc = "refreshing"
    /\ UNCHANGED notRequest
    /\ Catch(401, AppendLog(log, Event("refreshfail", attempt, 0, EmptyObject)))

\* The timer of a pause fired: continue
TimerFire ==
    /\ rq_pc = "waiting"
    /\ UNCHANGED notRequest
    /\ rq_pc' = "loop"
    /\ attempt' = NextAttempt(attempt)
    /\ UNCHANGED <<options, token, lastError, thrown, log>>

RequestNext ==
    \/ \E opts \in CallerOptions : makeRequest(opts)
    \/ AttemptStart
    \/ FetchReject
    \/ \E s \in Statuses : BodyReject(s)
    \/ \E s \in Statuses : FetchResolve(s)
    \/ \E t \in Tokens : RefreshResolve(t)
    \/ RefreshReject
    \/ TimerFire

\* ========================================================================
\* AuthManager (js/auth/auth-manager.js)

\* Bounds of the model
MaxUser == 2
MaxPending == 1
MaxClock == 2

\* null / undefined
Null == [null |-> TRUE]

\* What a provider reports about a user
UserData ==
    {[id |-> i, name |-> <<"name", i>>, email |-> <<"email", i>>,
      picture |-> <<"picture", i>>] : i \in 1..MaxUser}

\* result.error: "" stands for none
ErrorTexts == {"", "Sign-in was cancelled", "failed"}

\* The results the providers hand to the manager: a success with its user,
\* a failure with its error, a success that names no user, and a failure
\* that names one
AuthResults ==
    {[success |-> TRUE, user |-> u, error |-> ""] : u \in UserData}
        \cup {[success |-> FALSE, user |-> Null, error |-> e] : e \in ErrorTexts}
        \cup {[success |-> TRUE, user |-> Null, error |-> ""]}
        \cup {[success |-> FALSE, user |-> u, error |-> "failed"] : u \in UserData}

\* result.success && result.user
Succeeded(result) == result.success /\ result.user # Null

\* A user a former session left in storage
FormerUser ==
    [id |-> 1, name |-> <<"name", 1>>, email |-> <<"email", 1>>,
     picture |-> <<"picture", 1>>, signedInAt |-> 0, authMethod |-> "web"]

\* AuthUI calls
Show(kind) == [kind |-> kind, text |-> ""]
ShowAuthError(text) == [kind |-> "authError", text |-> text]

\* AuthStorage: saveUser, getSavedUser, clearSavedUser
SaveUser(u) == u
GetSavedUser == savedUser
ClearSavedUser == Null

\* the ghost record of the step that ran last: the handler, what it was
\* given and which branch it took
Last(op, arg, did) == [op |-> op, arg |-> arg, did |-> did]

\* setUserFromAuth(userData, authMethod): the new currentUser
setUserFromAuth(userData, authMethod) ==
    [id |-> userData.id, name |-> userData.name, email |-> userData.email,
     picture |-> userData.picture, signedInAt |-> now, authMethod |-> authMethod]

\* a sign-in completion that forgets to persist the user
CompleteSignInUnsaved(userData, authMethod) ==
    /\ currentUser' = setUserFromAuth(userData, authMethod)
    /\ isSignedIn' = TRUE
    /\ ui' = Show("signedIn")
    /\ UNCHANGED savedUser

\* setUserFromAuth; isSignedIn = true; storage.saveUser; ui.showSignedInState
CompleteSignIn(userData, authMethod) ==
    /\ currentUser' = setUserFromAuth(userData, authMethod)
    /\ isSignedIn' = TRUE
    /\ savedUser' = SaveUser(currentUser')
    /\ ui' = Show("signedIn")

\* isAuthenticated()
isAuthenticated == isSignedIn /\ currentUser # Null

\* getUser()
getUser == currentUser

\* The constructor, before init() runs
AuthInit ==
    /\ isWebView \in BOOLEAN
    /\ hasNativeAuth \in BOOLEAN
    /\ isFireTV \in BOOLEAN
    /\ currentUser = Null
    /\ isSignedIn = FALSE
    /\ nativeAuthAttempted = FALSE
    /\ savedUser \in {Null, FormerUser}
    /\ ui = Show("none")
    /\ init_pc = "start"
    /\ timers = <<>>
    /\ ftvDevice = 0
    /\ ftvFallback = 0
    /\ signInDevice = 0
    /\ signInWeb = 0
    /\ now = 1
    /\ last = Last("constructor", Null, "")

\* The handlers run once init() has installed them
Running == init_pc # "start"

\* handleFireTVAuthFailure up to its first await: startDeviceFlow is called
StartFireTVAuthFailure ==
    /\ ftvDevice < MaxPending
    /\ ftvDevice' = ftvDevice + 1

\* init() up to its first await: checkExistingAuth and the choice of provider
initWebViewFirst ==
    /\ init_pc = "start"
    /\ LET saved == GetSavedUser
           found == saved # Null IN
       /\ currentUser' = IF found THEN saved ELSE currentUser
       /\ isSignedIn' = IF found THEN TRUE ELSE isSignedIn
       /\ IF isWebView
          THEN /\ init_pc' = "done"
               /\ ui' = Show("webViewPrompt")
               /\ last' = Last("init", saved, "webview")
          ELSE IF hasNativeAuth
          THEN /\ init_pc' = "nativeInit"
               /\ ui' = IF found THEN Show("signedIn") ELSE ui
               /\ last' = Last("init", saved, "native")
          ELSE /\ init_pc' = "webInit"
               /\ ui' = IF found THEN Show("signedIn") ELSE ui
               /\ last' = Last("init", saved, "web")
    /\ UNCHANGED <<envVars, savedUser, nativeAuthAttempted, pendingVars, now>>
    /\ UNCHANGED notAuth

init ==
    /\ init_pc = "start"
    /\ LET saved == GetSavedUser
           found == saved # Null IN
       /\ currentUser' = IF found THEN saved ELSE currentUser
       /\ isSignedIn' = IF found THEN TRUE ELSE isSignedIn
       /\ IF hasNativeAuth
          THEN /\ init_pc' = "nativeInit"
               /\ ui' = IF found THEN Show("signedIn") ELSE ui
               /\ last' = Last("init", saved, "native")
          ELSE IF isWebView
          THEN /\ init_pc' = "done"
               /\ ui' = Show("webViewPrompt")
               /\ last' = Last("init", saved, "webview")
          ELSE /\ init_pc' = "webInit"
               /\ ui' = IF found THEN Show("signedIn") ELSE ui
               /\ last' = Last("init", saved, "web")
    /\ UNCHANGED <<envVars, savedUser, nativeAuthAttempted, pendingVars, now>>
    /\ UNCHANGED notAuth

\* nativeAuth.init() resolved: checkNativeUser()
NativeInitResolve(userData) ==
    /\ init_pc = "nativeInit"
    /\ init_pc' = "done"
    /\ IF userData # Null
       THEN /\ currentUser' = setUserFromAuth(userData, "native")
            /\ ui' = Show("signedIn")
            /\ last' = Last("checkNativeUser", userData, "found")
       ELSE /\ ui' = Show("signInPrompt")
            /\ last' = Last("checkNativeUser", userData, "prompt")
            /\ UNCHANGED currentUser
    /\ UNCHANGED <<envVars, isSignedIn, savedUser, nativeAuthAttempted, pendingVars, now>>
    /\ UNCHANGED notAuth

\* nativeAuth.init() rejected: init() ends with that rejection
NativeInitReject ==
    /\ init_pc = "nativeInit"
    /\ init_pc' = "done"
    /\ last' = Last("init", Null, "nativeInitRejected")
    /\ UNCHANGED <<envVars, userVars, nativeAuthAttempted, ui, pendingVars, now>>
    /\ UNCHANGED notAuth

\* webAuth.init() resolved
WebInitResolve ==
    /\ init_pc = "webInit"
    /\ init_pc' = "done"
    /\ ui' = IF ~isSignedIn THEN Show("signInPrompt") ELSE ui
    /\ last' = Last("init", Null, IF ~isSignedIn THEN "prompt" ELSE "")
    /\ UNCHANGED <<envVars, userVars, nativeAuthAttempted, pendingVars, now>>
    /\ UNCHANGED notAuth

\* a failure handler that never looks at the saved user
handleAuthFailureNoFallback ==
    /\ IF isFireTV
       THEN /\ StartFireTVAuthFailure
            /\ last' = Last("handleAuthFailure", GetSavedUser, "fireTV")
            /\ UNCHANGED <<userVars, ui, ftvFallback>>
       ELSE /\ ui' = ShowAuthError("Authentication service is currently unavailable.")
            /\ last' = Last("handleAuthFailure", GetSavedUser, "error")
            /\ UNCHANGED <<userVars, ftvDevice, ftvFallback>>

\* handleAuthFailure(error)
handleAuthFailure ==
    LET saved == GetSavedUser IN
    IF saved # Null
    THEN /\ currentUser' = saved
         /\ isSignedIn' = TRUE
         /\ ui' = Show("signedIn")
         /\ last' = Last("handleAuthFailure", saved, "saved")
         /\ UNCHANGED <<savedUser, ftvDevice, ftvFallback>>
    ELSE IF isFireTV
    THEN /\ StartFireTVAuthFailure
         /\ last' = Last("handleAuthFailure", saved, "fireTV")
         /\ UNCHANGED <<userVars, ui, ftvFallback>>
    ELSE IF isWebView
    THEN /\ ui' = Show("webViewPrompt")
         /\ last' = Last("handleAuthFailure", saved, "webview")
         /\ UNCHANGED <<userVars, ftvDevice, ftvFallback>>
    ELSE /\ ui' = ShowAuthError("Authentication service is currently unavailable.")
         /\ last' = Last("handleAuthFailure", saved, "error")
         /\ UNCHANGED <<userVars, ftvDevice, ftvFallback>>

\* webAuth.init() rejected: the catch of init() calls handleAuthFailure
WebInitReject ==
    /\ init_pc = "webInit"
    /\ init_pc' = "done"
    /\ handleAuthFailure
    /\ UNCHANGED <<envVars, nativeAuthAttempted, timers, signInDevice, signInWeb, now>>
    /\ UNCHANGED notAuth

\* window.handleNativeAuth(result)
handleNativeAuthResult(result) ==
    /\ Running
    /\ hasNativeAuth
    /\ nativeAuthAttempted' = TRUE
    /\ IF Succeeded(result)
       THEN /\ CompleteSignIn(result.user, "native")
            /\ last' = Last("handleNativeAuthResult", result.user, "signedIn")
            /\ UNCHANGED ftvDevice
       ELSE IF isFireTV
       THEN /\ StartFireTVAuthFailure
            /\ last' = Last("handleNativeAuthResult", Null, "fireTV")
            /\ UNCHANGED <<userVars, ui>>
       ELSE IF result.error # "" /\ result.error # "Sign-in was cancelled"
       THEN /\ ui' = ShowAuthError(result.error)
            /\ last' = Last("handleNativeAuthResult", [error |-> result.error], "error")
            /\ UNCHANGED <<userVars, ftvDevice>>
       ELSE /\ last' = Last("handleNativeAuthResult", [error |-> result.error], "")
            /\ UNCHANGED <<userVars, ui, ftvDevice>>
    /\ timers' = [i \in DOMAIN timers |-> TRUE]
    /\ UNCHANGED <<envVars, init_pc, ftvFallback, signInDevice, signInWeb, now>>
    /\ UNCHANGED notAuth

\* window.handleWebAuth(result): the web provider reports only where it was
\* started, by init() or signIn() without native auth
handleWebAuthResult(result) ==
    /\ Running
    /\ ~hasNativeAuth
    /\ IF Succeeded(result)
       THEN /\ CompleteSignIn(result.user, "web")
            /\ last' = Last("handleWebAuthResult", result.user, "signedIn")
       ELSE /\ ui' = ShowAuthError(IF result.error # "" THEN result.error
                                   ELSE "Web authentication failed")
            /\ last' = Last("handleWebAuthResult", Null, "error")
            /\ UNCHANGED userVars
    /\ UNCHANGED <<envVars, nativeAuthAttempted, init_pc, pendingVars, now>>
    /\ UNCHANGED notAuth

\* createWebViewUser(): the callback of the WebView prompt
createWebViewUser ==
    /\ Running
    /\ ui.kind = "webViewPrompt"
    /\ currentUser' = [id |-> <<"webview-user", now>>, name |-> "Dashie User",
                       email |-> "user@dashie.app",
                       picture |-> "icons/icon-profile-round.svg",
                       signedInAt |-> now, authMethod |-> "webview"]
    /\ isSignedIn' = TRUE
    /\ savedUser' = SaveUser(currentUser')
    /\ ui' = Show("signedIn")
    /\ last' = Last("createWebViewUser", Null, "signedIn")
    /\ UNCHANGED <<envVars, nativeAuthAttempted, init_pc, pendingVars, now>>
    /\ UNCHANGED notAuth

\* signIn() up to its first await
signIn ==
    /\ Running
    /\ IF hasNativeAuth
       THEN /\ IF isFireTV
               THEN Len(timers) < MaxPending /\ timers' = Append(timers, FALSE)
               ELSE UNCHANGED timers
            /\ last' = Last("signIn", Null, "native")
            /\ UNCHANGED <<signInDevice, signInWeb>>
       ELSE IF isFireTV
       THEN /\ signInDevice < MaxPending
            /\ signInDevice' = signInDevice + 1
            /\ last' = Last("signIn", Null, "deviceFlow")
            /\ UNCHANGED <<timers, signInWeb>>
       ELSE /\ signInWeb < MaxPending
            /\ signInWeb' = signInWeb + 1
            /\ last' = Last("signIn", Null, "web")
            /\ UNCHANGED <<timers, signInDevice>>
    /\ UNCHANGED <<envVars, userVars, nativeAuthAttempted, ui, init_pc,
                   ftvDevice, ftvFallback, now>>
    /\ UNCHANGED notAuth

\* what was true when a timeout fired: whether a native result arrived for
\* its sign-in, and whether a user was signed in
TimerSaw(arrived) == [arrived |-> arrived, signedIn |-> isSignedIn]

\* the 3 s timeout signIn set on Fire TV fired
TimeoutFire ==
    /\ timers # <<>>
    /\ timers' = Tail(timers)
    /\ IF ~isSignedIn /\ ~nativeAuthAttempted
       THEN /\ StartFireTVAuthFailure
            /\ last' = Last("timeout", TimerSaw(Head(timers)), "fireTV")
       ELSE /\ last' = Last("timeout", TimerSaw(Head(timers)), "")
            /\ UNCHANGED ftvDevice
    /\ UNCHANGED <<envVars, userVars, nativeAuthAttempted, ui, init_pc,
                   ftvFallback, signInDevice, signInWeb, now>>
    /\ UNCHANGED notAuth

\* handleFireTVAuthFailure: startDeviceFlow() resolved with result
DeviceFlowResolve(result) ==
    /\ ftvDevice > 0
    /\ ftvDevice' = ftvDevice - 1
    /\ IF Succeeded(result)
       THEN /\ CompleteSignIn(result.user, "device_flow")
            /\ last' = Last("deviceFlow", result.user, "signedIn")
       ELSE /\ last' = Last("deviceFlow", Null, "")
            /\ UNCHANGED <<userVars, ui>>
    /\ UNCHANGED <<envVars, nativeAuthAttempted, init_pc, timers, ftvFallback,
                   signInDevice, signInWeb, now>>
    /\ UNCHANGED notAuth

\* handleFireTVAuthFailure: startDeviceFlow() rejected, showFireTVFallback
\* is called
DeviceFlowReject ==
    /\ ftvDevice > 0
    /\ ftvFallback < MaxPending
    /\ ftvDevice' = ftvDevice - 1
    /\ ftvFallback' = ftvFallback + 1
    /\ last' = Last("deviceFlow", Null, "fallback")
    /\ UNCHANGED <<envVars, userVars, nativeAuthAttempted, ui, init_pc, timers,
                   signInDevice, signInWeb, now>>
    /\ UNCHANGED notAuth

\* handleFireTVAuthFailure: showFireTVFallback() resolved with result
FallbackResolve(result) ==
    /\ ftvFallback > 0
    /\ ftvFallback' = ftvFallback - 1
    /\ IF Succeeded(result)
       THEN /\ CompleteSignIn(result.user, "fire_tv_fallback")
            /\ last' = Last("fallback", result.user, "signedIn")
       ELSE /\ last' = Last("fallback", Null, "")
            /\ UNCHANGED <<userVars, ui>>
    /\ UNCHANGED <<envVars, nativeAuthAttempted, init_pc, timers, ftvDevice,
                   signInDevice, signInWeb, now>>
    /\ UNCHANGED notAuth

\* handleFireTVAuthFailure: showFireTVFallback() rejected
FallbackReject ==
    /\ ftvFallback > 0
    /\ ftvFallback' = ftvFallback - 1
    /\ ui' = ShowAuthError("Authentication failed. Please check your network connection and try again.")
    /\ last' = Last("fallback", Null, "error")
    /\ UNCHANGED <<envVars, userVars, nativeAuthAttempted, init_pc, timers, ftvDevice,
                   signInDevice, signInWeb, now>>
    /\ UNCHANGED notAuth

\* signIn on Fire TV without native auth: startDeviceFlow() resolved
SignInDeviceResolve(result) ==
    /\ signInDevice > 0
    /\ signInDevice' = signInDevice - 1
    /\ IF Succeeded(result)
       THEN /\ CompleteSignIn(result.user, "device_flow")
            /\ last' = Last("signInDeviceFlow", result.user, "signedIn")
       ELSE /\ last' = Last("signInDeviceFlow", Null, "")
            /\ UNCHANGED <<userVars, ui>>
    /\ UNCHANGED <<envVars, nativeAuthAttempted, init_pc, timers, ftvDevice,
                   ftvFallback, signInWeb, now>>
    /\ UNCHANGED notAuth

\* signIn on Fire TV without native auth: startDeviceFlow() rejected
SignInDeviceReject ==
    /\ signInDevice > 0
    /\ signInDevice' = signInDevice - 1
    /\ StartFireTVAuthFailure
    /\ last' = Last("signInDeviceFlow", Null, "fireTV")
    /\ UNCHANGED <<envVars, userVars, nativeAuthAttempted, ui, init_pc, timers,
                   ftvFallback, signInWeb, now>>
    /\ UNCHANGED notAuth

\* signIn in a browser: webAuth.signIn() resolved
SignInWebResolve ==
    /\ signInWeb > 0
    /\ signInWeb' = signInWeb - 1
    /\ last' = Last("signInWeb", Null, "")
    /\ UNCHANGED <<envVars, userVars, nativeAuthAttempted, ui, init_pc, timers,
                   ftvDevice, ftvFallback, signInDevice, now>>
    /\ UNCHANGED notAuth

\* signIn in a browser: webAuth.signIn() rejected
SignInWebReject ==
    /\ signInWeb > 0
    /\ signInWeb' = signInWeb - 1
    /\ ui' = ShowAuthError("Sign-in failed. Please try again.")
    /\ last' = Last("signInWeb", Null, "error")
    /\ UNCHANGED <<envVars, userVars, nativeAuthAttempted, init_pc, timers,
                   ftvDevice, ftvFallback, signInDevice, now>>
    /\ UNCHANGED notAuth

\* the prompt signOut shows
SignOutPrompt ==
    IF isWebView /\ ~hasNativeAuth THEN Show("webViewPrompt") ELSE Show("signInPrompt")

\* a sign-out that forgets the user but not the signed-in flag
signOutKeepsSignedIn ==
    /\ Running
    /\ currentUser' = Null
    /\ nativeAuthAttempted' = FALSE
    /\ savedUser' = ClearSavedUser
    /\ ui' = SignOutPrompt
    /\ last' = Last("signOut", currentUser, IF nativeAuthAttempted THEN "attempted" ELSE "")
    /\ UNCHANGED <<envVars, isSignedIn, init_pc, pendingVars, now>>
    /\ UNCHANGED notAuth

\* a sign-out that leaves the stored user behind
signOutKeepsStorage ==
    /\ Running
    /\ currentUser' = Null
    /\ isSignedIn' = FALSE
    /\ nativeAuthAttempted' = FALSE
    /\ ui' = SignOutPrompt
    /\ last' = Last("signOut", currentUser, IF nativeAuthAttempted THEN "attempted" ELSE "")
    /\ UNCHANGED <<envVars, savedUser, init_pc, pendingVars, now>>
    /\ UNCHANGED notAuth

\* signOut()
signOut ==
    /\ Running
    /\ currentUser' = Null
    /\ isSignedIn' = FALSE
    /\ nativeAuthAttempted' = FALSE
    /\ savedUser' = ClearSavedUser
    /\ ui' = SignOutPrompt
    /\ last' = Last("signOut", currentUser, IF nativeAuthAttempted THEN "attempted" ELSE "")
    /\ UNCHANGED <<envVars, init_pc, pendingVars, now>>
    /\ UNCHANGED notAuth

\* time passes
Tick ==
    /\ Running
    /\ now < MaxClock
    /\ now' = now + 1
    /\ last' = Last("tick", Null, "")
    /\ UNCHANGED <<envVars, userVars, nativeAuthAttempted, ui, init_pc, pendingVars>>
    /\ UNCHANGED notAuth

AuthNext ==
    \/ init
    \/ \E u \in UserData \cup {Null} : NativeInitResolve(u)
    \/ NativeInitReject
    \/ WebInitResolve
    \/ WebInitReject
    \/ \E r \in AuthResults : handleNativeAuthResult(r)
    \/ \E r \in AuthResults : handleWebAuthResult(r)
    \/ createWebViewUser
    \/ signIn
    \/ TimeoutFire
    \/ \E r \in AuthResults : DeviceFlowResolve(r)
    \/ DeviceFlowReject
    \/ \E r \in AuthResults : FallbackResolve(r)
    \/ FallbackReject
    \/ \E r \in AuthResults : SignInDeviceResolve(r)
    \/ SignInDeviceReject
    \/ SignInWebResolve
    \/ SignInWebReject
    \/ signOut
    \/ Tick

\* ------------------------------------------------------------------------
\* The settings modal (js/settings/settings-main.js)

\* const categories, by id; indexes are those of the array (from 0)
categories == <<"display", "sleep", "photos", "testing">>
CategoryIds == {categories[i] : i \in 1..Len(categories)}
CategoryAt(i) == categories[i + 1]
\* categories.findIndex(c => c.id === id)
findIndex(id) ==
    IF id \in CategoryIds
    THEN (CHOOSE i \in 1..Len(categories) : categories[i] = id) - 1
    ELSE -1

\* The settings the modal's controls write: the options of the two selects
\* that carry a data-setting attribute (of the three redirect URLs, the
\* production and the staging one)
Themes == {"dark", "light"}
RedirectUrls == {"https://jwlerch78.github.io/dashie/",
                 "https://jwlerch78.github.io/dashie_staging/"}
SettingPaths == {"display.theme", "testing.redirectUrl"}
SettingValues(path) == IF path = "display.theme" THEN Themes ELSE RedirectUrls
AllSettings == {o \in [SettingPaths -> Themes \cup RedirectUrls] :
                  \A p \in SettingPaths : o[p] \in SettingValues(p)}

\* JSON.parse(JSON.stringify(o)): a fresh object without the properties
\* whose value is undefined, and with null where the value was NaN
Undefined == "<undefined>"
NaN == "<NaN>"
JsonNull == "<null>"
JsonCopy(o) ==
    [k \in {p \in DOMAIN o : o[p] # Undefined} |->
        IF o[k] = NaN THEN JsonNull ELSE o[k]]

\* SettingsController: the settings object, path setters, the copy-back of
\* a snapshot, and the write to storage
getAllSettings == settings
ControllerGet(o, path, defaultValue) == IF Has(o, path) THEN o[path] ELSE defaultValue
ControllerSet(o, path, value) == [k \in DOMAIN o \cup {path} |-> IF k = path THEN value ELSE o[k]]
restoreSettings(snapshot) == snapshot
saveToStorage == stored' = settings

\* The elements of the active panel that getFocusableElements() returns,
\* in document order; a collapsed section hides its content
PanelElements(cat, open) ==
    CASE cat = "display" -> <<"SELECT">>
      [] cat = "sleep" -> IF open
                          THEN <<"section-header", "INPUT", "INPUT", "BUTTON",
                                 "INPUT", "INPUT", "BUTTON">>
                          ELSE <<"section-header">>
      [] cat = "photos" -> <<"INPUT">>
      [] cat = "testing" -> <<"SELECT", "BUTTON">>
      [] OTHER -> <<>>
getFocusableElements == PanelElements(currentCategory, sleepOpen)

Max(a, b) == IF a > b THEN a ELSE b
Focus(type, index) == [type |-> type, index |-> index]
\* the handler that ran last, how it was reached, what handleSettingsKeyPress
\* returned, whether the settings object changed, and the window events the
\* handler dispatched
StLast(op, via, ret) ==
    [op |-> op, via |-> via, ret |-> ret, changed |-> settings' # settings,
     events |-> <<>>]
\* window.dispatchEvent(new CustomEvent(name, ...))
Dispatched(rec, name) == [rec EXCEPT !.events = Append(@, name)]

\* getSetting('display.theme', 'dark')
CurrentTheme(o) == ControllerGet(o, "display.theme", "dark")

SettingsInit ==
    /\ settings \in AllSettings
    /\ stored = settings
    /\ originalSettings = EmptyObject
    /\ isSettingsVisible = FALSE
    /\ overlay = "none"
    /\ currentCategory = "display"
    /\ currentFocus = Focus("category", 0)
    /\ sleepOpen = TRUE
    /\ bodyTheme = CurrentTheme(settings)
    /\ atShow = EmptyObject
    /\ st_last = [op |-> "initializeSettings", via |-> "call", ret |-> FALSE,
                  changed |-> FALSE, events |-> <<>>]

\* export function setSetting(path, value)
setSettingSaving(path, value) ==
    /\ settings' = ControllerSet(settings, path, value)
    /\ stored' = settings'
    /\ UNCHANGED <<originalSettings, isSettingsVisible, overlay,
                   currentCategory, currentFocus, sleepOpen, bodyTheme, atShow>>
    /\ st_last' = StLast("setSetting", "call", FALSE)
    /\ UNCHANGED notSettings

setSetting(path, value) ==
    /\ settings' = ControllerSet(settings, path, value)
    /\ UNCHANGED <<stored, originalSettings, isSettingsVisible, overlay,
                   currentCategory, currentFocus, sleepOpen, bodyTheme, atShow>>
    /\ st_last' = StLast("setSetting", "call", FALSE)
    /\ UNCHANGED notSettings

\* a showSettings that opens the modal anew when it is already open
showSettingsAgain(initialCategory) ==
    /\ originalSettings' = JsonCopy(getAllSettings)
    /\ atShow' = IF isSettingsVisible THEN atShow ELSE settings
    /\ currentCategory' = initialCategory
    /\ currentFocus' = Focus("category", findIndex(initialCategory))
    /\ overlay' = "active"
    /\ sleepOpen' = TRUE
    /\ isSettingsVisible' = TRUE
    /\ UNCHANGED <<settings, stored, bodyTheme>>
    /\ st_last' = StLast("showSettings", "call", FALSE)
    /\ UNCHANGED notSettings

\* export async function showSettings(initialCategory)
showSettings(initialCategory) ==
    /\ IF isSettingsVisible
       THEN UNCHANGED <<originalSettings, currentCategory, currentFocus,
                        overlay, isSettingsVisible, sleepOpen, atShow>>
       ELSE /\ originalSettings' = JsonCopy(getAllSettings)
            /\ atShow' = settings
            /\ currentCategory' = initialCategory
            /\ currentFocus' = Focus("category", findIndex(initialCategory))
            \* createSettingsModal: a new overlay with the initial panel
            /\ overlay' = "active"
            /\ sleepOpen' = TRUE
            /\ isSettingsVisible' = TRUE
    /\ UNCHANGED <<settings, stored, bodyTheme>>
    /\ st_last' = StLast("showSettings", "call", FALSE)
    /\ UNCHANGED notSettings

\* export function hideSettings(): the overlay fades and is removed 300 ms
\* later
hideSettings ==
    IF overlay # "none"
    THEN /\ isSettingsVisible' = FALSE
         /\ overlay' = "closing"
    ELSE UNCHANGED <<isSettingsVisible, overlay>>

HideCall ==
    /\ hideSettings
    /\ UNCHANGED <<settings, stored, originalSettings, currentCategory,
                   currentFocus, sleepOpen, bodyTheme, atShow>>
    /\ st_last' = StLast("hideSettings", "call", FALSE)
    /\ UNCHANGED notSettings

\* the timeout that hideSettings set fired
OverlayRemoved ==
    /\ overlay = "closing"
    /\ overlay' = "none"
    /\ UNCHANGED <<settings, stored, originalSettings, isSettingsVisible,
                   currentCategory, currentFocus, sleepOpen, bodyTheme, atShow>>
    /\ st_last' = StLast("overlayRemoved", "timer", FALSE)
    /\ UNCHANGED notSettings

\* function handleCancel()
handleCancelKeep(via, ret) ==
    /\ hideSettings
    /\ UNCHANGED <<settings, stored, originalSettings, currentCategory,
                   currentFocus, sleepOpen, bodyTheme, atShow>>
    /\ st_last' = StLast("handleCancel", via, ret)

handleCancel(via, ret) ==
    /\ settings' = restoreSettings(originalSettings)
    /\ bodyTheme' = CurrentTheme(settings')
    /\ hideSettings
    /\ UNCHANGED <<stored, originalSettings, currentCategory, currentFocus,
                   sleepOpen, atShow>>
    /\ st_last' = StLast("handleCancel", via, ret)

\* a save that closes the modal whether or not saveToStorage threw
handleSaveHidesAnyway(via, ret, throws) ==
    /\ IF throws
       THEN UNCHANGED <<stored, bodyTheme>>
       ELSE /\ saveToStorage
            /\ bodyTheme' = CurrentTheme(settings)
    /\ hideSettings
    /\ UNCHANGED <<settings, originalSettings, currentCategory, currentFocus,
                   sleepOpen, atShow>>
    /\ st_last' = IF throws THEN StLast("handleSaveFailed", via, ret)
                  ELSE Dispatched(StLast("handleSave", via, ret), "settingsUpdated")

\* function handleSave(); saveToStorage may throw, and the catch block only
\* logs
handleSave(via, ret, throws) ==
    /\ IF throws
       THEN UNCHANGED <<stored, bodyTheme, isSettingsVisible, overlay>>
       ELSE /\ saveToStorage
            /\ bodyTheme' = CurrentTheme(settings)
            /\ hideSettings
    /\ UNCHANGED <<settings, originalSettings, currentCategory, currentFocus,
                   sleepOpen, atShow>>
    /\ st_last' = IF throws THEN StLast("handleSaveFailed", via, ret)
                  ELSE Dispatched(StLast("handleSave", via, ret), "settingsUpdated")

\* function switchToPanelFocus()
switchToPanelFocus(focus, elements) ==
    IF Len(elements) > 0 THEN Focus("panel", 0) ELSE focus
ToggleFooter(focus) == Focus("footer", IF focus.index = 0 THEN 1 ELSE 0)

\* The navigation functions give the new currentFocus and currentCategory
\* (switchToCategory makes the category's panel the active one)
NavResult(focus, cat) == [focus |-> focus, cat |-> cat]
navigateUp(focus, cat, open) ==
    CASE focus.type = "category" ->
            LET i == Max(0, focus.index - 1)
            IN NavResult(Focus("category", i), CategoryAt(i))
      [] focus.type = "panel" ->
            IF Len(PanelElements(cat, open)) > 0
            THEN NavResult(Focus("panel", Max(0, focus.index - 1)), cat)
            ELSE NavResult(focus, cat)
      [] OTHER -> NavResult(switchToPanelFocus(focus, PanelElements(cat, open)), cat)

navigateDown(focus, cat, open) ==
    CASE focus.type = "category" ->
            LET i == Min(Len(categories) - 1, focus.index + 1)
            IN NavResult(Focus("category", i), CategoryAt(i))
      [] focus.type = "panel" ->
            LET n == Len(PanelElements(cat, open))
            IN IF focus.index >= n - 1
               THEN NavResult(Focus("footer", 0), cat)
               ELSE NavResult(Focus("panel", Min(n - 1, focus.index + 1)), cat)
      [] OTHER -> NavResult(ToggleFooter(focus), cat)

navigateLeft(focus, cat, open) ==
    IF focus.type \in {"panel", "footer"}
    THEN NavResult(Focus("category", findIndex(cat)), cat)
    ELSE NavResult(focus, cat)

navigateRight(focus, cat, open) ==
    CASE focus.type = "category" ->
            NavResult(switchToPanelFocus(focus, PanelElements(cat, open)), cat)
      [] focus.type = "footer" -> NavResult(ToggleFooter(focus), cat)
      [] OTHER -> NavResult(focus, cat)

\* a navigation key was handled
Navigate(op, key, ret, result) ==
    /\ currentFocus' = result.focus
    /\ currentCategory' = result.cat
    /\ UNCHANGED <<settings, stored, originalSettings, isSettingsVisible,
                   overlay, sleepOpen, bodyTheme, atShow>>
    /\ st_last' = StLast(op, key, ret)

\* the click listener of a section header
ToggleSection == sleepOpen' = ~sleepOpen

\* function handleEnter()
handleEnter(key, throws) ==
    CASE currentFocus.type = "category" ->
            LET cat == CategoryAt(currentFocus.index)
            IN Navigate("handleEnter", key, TRUE,
                   NavResult(switchToPanelFocus(currentFocus,
                                 PanelElements(cat, sleepOpen)), cat))
      [] currentFocus.type = "panel" ->
            /\ IF /\ currentFocus.index < Len(getFocusableElements)
                  /\ getFocusableElements[currentFocus.index + 1] = "section-header"
               THEN ToggleSection
               ELSE UNCHANGED sleepOpen
            /\ UNCHANGED <<settings, stored, originalSettings, isSettingsVisible,
                           overlay, currentCategory, currentFocus, bodyTheme, atShow>>
            /\ st_last' = StLast("handleEnter", key, TRUE)
      [] OTHER ->
            IF currentFocus.index = 0
            THEN handleCancel(key, TRUE)
            ELSE handleSave(key, TRUE, throws)

Keys == {"Escape", "escape", "ArrowUp", "up", "ArrowDown", "down", "ArrowLeft",
         "left", "ArrowRight", "right", "Enter", "enter", "Tab"}

\* a key handler that takes Escape also while the modal is hidden
handleSettingsKeyPressHidden(key, throws) ==
    /\ IF key \in {"Escape", "escape"}
       THEN handleCancel(key, TRUE)
       ELSE /\ UNCHANGED <<settings, stored, originalSettings, isSettingsVisible,
                           overlay, currentCategory, currentFocus, sleepOpen,
                           bodyTheme, atShow>>
            /\ st_last' = StLast("handleSettingsKeyPress", key, FALSE)
    /\ UNCHANGED notSettings

\* export function handleSettingsKeyPress(event)
handleSettingsKeyPress(key, throws) ==
    /\ IF ~isSettingsVisible
       THEN /\ UNCHANGED <<settings, stored, originalSettings, isSettingsVisible,
                           overlay, currentCategory, currentFocus, sleepOpen,
                           bodyTheme, atShow>>
            /\ st_last' = StLast("handleSettingsKeyPress", key, FALSE)
       ELSE CASE key \in {"Escape", "escape"} -> handleCancel(key, TRUE)
              [] key \in {"ArrowUp", "up"} ->
                    Navigate("navigateUp", key, TRUE,
                             navigateUp(currentFocus, currentCategory, sleepOpen))
              [] key \in {"ArrowDown", "down"} ->
                    Navigate("navigateDown", key, TRUE,
                             navigateDown(currentFocus, currentCategory, sleepOpen))
              [] key \in {"ArrowLeft", "left"} ->
                    Navigate("navigateLeft", key, TRUE,
                             navigateLeft(currentFocus, currentCategory, sleepOpen))
              [] key \in {"ArrowRight", "right"} ->
                    Navigate("navigateRight", key, TRUE,
                             navigateRight(currentFocus, currentCategory, sleepOpen))
              [] key \in {"Enter", "enter"} -> handleEnter(key, throws)
              [] OTHER ->
                    /\ UNCHANGED <<settings, stored, originalSettings,
                                   isSettingsVisible, overlay, currentCategory,
                                   currentFocus, sleepOpen, bodyTheme, atShow>>
                    /\ st_last' = StLast("handleSettingsKeyPress", key, FALSE)
    /\ UNCHANGED notSettings

\* The listeners of the modal (setupModalEventListeners); the overlay's
\* elements take clicks for as long as the overlay is in the document
CloseClick ==
    /\ overlay # "none"
    /\ handleCancel("close-btn", FALSE)
    /\ UNCHANGED notSettings

CancelClick ==
    /\ overlay # "none"
    /\ handleCancel("cancelBtn", FALSE)
    /\ UNCHANGED notSettings

OverlayClick ==
    /\ overlay # "none"
    /\ handleCancel("overlay", FALSE)
    /\ UNCHANGED notSettings

SaveClick(throws) ==
    /\ overlay # "none"
    /\ handleSave("saveBtn", FALSE, throws)
    /\ UNCHANGED notSettings

CategoryClick(index) ==
    /\ overlay # "none"
    /\ Navigate("categoryClick", "click", FALSE,
                NavResult(Focus("category", index), CategoryAt(index)))
    /\ UNCHANGED notSettings

\* The listeners of a panel (addPanelEventListeners)
ThemeChange(value) ==
    /\ overlay # "none"
    /\ currentCategory = "display"
    /\ settings' = ControllerSet(settings, "display.theme", value)
    /\ bodyTheme' = value
    /\ UNCHANGED <<stored, originalSettings, isSettingsVisible, overlay,
                   currentCategory, currentFocus, sleepOpen, atShow>>
    /\ st_last' = StLast("change", "display.theme", FALSE)
    /\ UNCHANGED notSettings

RedirectUrlChange(value) ==
    /\ overlay # "none"
    /\ currentCategory = "testing"
    /\ settings' = ControllerSet(settings, "testing.redirectUrl", value)
    /\ UNCHANGED <<stored, originalSettings, isSettingsVisible, overlay,
                   currentCategory, currentFocus, sleepOpen, bodyTheme, atShow>>
    /\ st_last' = StLast("change", "testing.redirectUrl", FALSE)
    /\ UNCHANGED notSettings

SectionHeaderClick ==
    /\ overlay # "none"
    /\ currentCategory = "sleep"
    /\ ToggleSection
    /\ UNCHANGED <<settings, stored, originalSettings, isSettingsVisible, overlay,
                   currentCategory, currentFocus, bodyTheme, atShow>>
    /\ st_last' = StLast("sectionToggle", "click", FALSE)
    /\ UNCHANGED notSettings

\* saveToStorage can only throw where it is called: on Enter
SaveOutcomes(key) == IF key \in {"Enter", "enter"} THEN BOOLEAN ELSE {FALSE}

SettingsNext ==
    \/ \E p \in SettingPaths : \E v \in SettingValues(p) : setSetting(p, v)
    \/ \E c \in CategoryIds : showSettings(c)
    \/ HideCall
    \/ OverlayRemoved
    \/ \E k \in Keys : \E throws \in SaveOutcomes(k) : handleSettingsKeyPress(k, throws)
    \/ CloseClick
    \/ CancelClick
    \/ OverlayClick
    \/ \E throws \in BOOLEAN : SaveClick(throws)
    \/ \E i \in 0..(Len(categories) - 1) : CategoryClick(i)
    \/ \E v \in Themes : ThemeChange(v)
    \/ \E v \in RedirectUrls : RedirectUrlChange(v)
    \/ SectionHeaderClick

\* the settings module before initializeSettings
SettingsQuiet ==
    /\ settings = EmptyObject
    /\ stored = EmptyObject
    /\ originalSettings = EmptyObject
    /\ isSettingsVisible = FALSE
    /\ overlay = "none"
    /\ currentCategory = "display"
    /\ currentFocus = Focus("category", 0)
    /\ sleepOpen = TRUE
    /\ bodyTheme = "dark"
    /\ atShow = EmptyObject
    /\ st_last = [op |-> "none", via |-> "", ret |-> FALSE, changed |-> FALSE,
                  events |-> <<>>]

\* ------------------------------------------------------------------------
\* The rate limiter of GoogleAPIClient, shared by the makeRequest calls that
\* are in flight. Between two awaits a call runs without interruption and
\* Date.now() stands still; the clock moves in quanta while every call is
\* idle, asleep in waitForRateLimit or waiting for its response.
minRequestInterval == 100

NCalls == 2
Quantum == 50
MaxTime == 400
MaxFetches == 3
Calls == 1..NCalls

RateInit ==
    /\ rl_now = 2 * Quantum
    /\ lastRequestTime = 0
    /\ rl_pc = [c \in Calls |-> "idle"]
    /\ rl_deadline = [c \in Calls |-> 0]
    /\ fetchTimes = <<>>

\* makeRequest is called: it runs up to await this.getAccessToken()
RateCall(c) ==
    /\ rl_pc[c] = "idle"
    /\ Len(fetchTimes) + Cardinality({d \in Calls : rl_pc[d] \in {"token", "sleeping", "ready"}})
          < MaxFetches
    /\ rl_pc' = [rl_pc EXCEPT ![c] = "token"]
    /\ UNCHANGED <<rl_now, lastRequestTime, rl_deadline, fetchTimes>>
    /\ UNCHANGED notRate

\* waitForRateLimit up to its await, or to its end when there is no wait
waitForRateLimit(c) ==
    /\ rl_pc[c] = "token"
    /\ LET timeSinceLastRequest == rl_now - lastRequestTime IN
       IF timeSinceLastRequest < minRequestInterval
       THEN /\ rl_deadline' = [rl_deadline EXCEPT ![c] =
                                  rl_now + (minRequestInterval - timeSinceLastRequest)]
            /\ rl_pc' = [rl_pc EXCEPT ![c] = "sleeping"]
            /\ UNCHANGED lastRequestTime
       ELSE /\ lastRequestTime' = rl_now
            /\ rl_pc' = [rl_pc EXCEPT ![c] = "ready"]
            /\ UNCHANGED rl_deadline
    /\ UNCHANGED <<rl_now, fetchTimes>>
    /\ UNCHANGED notRate

\* the timeout of waitForRateLimit fired: the rest of waitForRateLimit
RateWake(c) ==
    /\ rl_pc[c] = "sleeping"
    /\ rl_now >= rl_deadline[c]
    /\ lastRequestTime' = rl_now
    /\ rl_pc' = [rl_pc EXCEPT ![c] = "ready"]
    /\ UNCHANGED <<rl_now, rl_deadline, fetchTimes>>
    /\ UNCHANGED notRate

\* makeRequest goes on after await this.waitForRateLimit(): fetch is called
RateFetch(c) ==
    /\ rl_pc[c] = "ready"
    /\ fetchTimes' = Append(fetchTimes, rl_now)
    /\ rl_pc' = [rl_pc EXCEPT ![c] = "fetching"]
    /\ UNCHANGED <<rl_now, lastRequestTime, rl_deadline>>
    /\ UNCHANGED notRate

\* the response arrived and the call ended
RateResponse(c) ==
    /\ rl_pc[c] = "fetching"
    /\ rl_pc' = [rl_pc EXCEPT ![c] = "idle"]
    /\ UNCHANGED <<rl_now, lastRequestTime, rl_deadline, fetchTimes>>
    /\ UNCHANGED notRate

\* time passes
RateTick ==
    /\ \A c \in Calls : rl_pc[c] \in {"idle", "sleeping", "fetching"}
    /\ rl_now < MaxTime
    /\ rl_now' = rl_now + Quantum
    /\ UNCHANGED <<lastRequestTime, rl_pc, rl_deadline, fetchTimes>>
    /\ UNCHANGED notRate

RateNext ==
    \/ \E c \in Calls : RateCall(c)
    \/ \E c \in Calls : waitForRateLimit(c)
    \/ \E c \in Calls : RateWake(c)
    \/ \E c \in Calls : RateFetch(c)
    \/ \E c \in Calls : RateResponse(c)
    \/ RateTick

\* a client on which makeRequest is not called
RateQuiet ==
    /\ rl_now = 0
    /\ lastRequestTime = 0
    /\ rl_pc = <<>>
    /\ rl_deadline = <<>>
    /\ fetchTimes = <<>>

\* ------------------------------------------------------------------------
\* The methods of GoogleAPIClient that are built on makeRequest. A
\* makeRequest call either returns the data or throws an error that carries
\* the HTTP status (0: an error without status).

\* Text is a sequence of pieces; includes() looks for a run of pieces
includes(text, target) ==
    \E i \in 1..(Len(text) - Len(target) + 1) :
        SubSeq(text, i, i + Len(target) - 1) = target

CALENDARS_TO_INCLUDE == << <<"jwlerch@gmail.com">>, <<"Veeva">> >>
DEFAULT_PHOTOS_ALBUM == "Favorites"

\* String.prototype.toLowerCase on the album names the code compares
toLowerCase(str) ==
    CASE str = "Favorites" -> "favorites"
      [] str = "Recent" -> "recent"
      [] OTHER -> str

\* The calendars an account may list, and the lists there are: every
\* selection of them, in this order
CalendarUniverse ==
    << [id |-> <<"jwlerch@gmail.com">>, summary |-> <<"jwlerch@gmail.com">>],
       [id |-> <<"abc", "@group.calendar.google.com">>, summary |-> <<"Veeva", " Team">>],
       [id |-> <<"Veeva", "@import.calendar.google.com">>, summary |-> <<"Work">>],
       [id |-> <<"def", "@group.calendar.google.com">>, summary |-> <<"veeva">>] >>

RECURSIVE Select(_, _)
Select(seq, keep) ==
    IF seq = <<>> THEN <<>>
    ELSE LET rest == Select(Tail(seq), {i - 1 : i \in keep \ {1}})
         IN IF 1 \in keep THEN <<Head(seq)>> \o rest ELSE rest
CalendarLists == {Select(CalendarUniverse, keep) : keep \in SUBSET (1..Len(CalendarUniverse))}

\* Events: a timed event starts at an hour of a day in a zone (offset from
\* UTC in hours), an all-day event on a day
Timed(id, day, hour, offset) ==
    [id |-> id, start |-> [dateTime |-> <<day, hour, offset>>]]
AllDay(id, day) == [id |-> id, start |-> [date |-> <<day>>]]
\* what the events request of one calendar may return (orderBy=startTime)
EventResponses ==
    { <<>>,
      <<Timed("e1", 1, 9, 0)>>,
      <<AllDay("e2", 1), Timed("e3", 1, 20, -5)>>,
      <<Timed("e4", 1, 8, 0), AllDay("e5", 2)>> }

\* new Date(text) - 0, in hours: a date-time is the instant it names, a
\* date is midnight UTC of that day
DateValue(text) ==
    IF Len(text) = 3 THEN text[1] * 24 + text[2] - text[3] ELSE text[1] * 24
\* new Date(a.start.dateTime || a.start.date)
StartValue(event) ==
    DateValue(IF Has(event.start, "dateTime")
              THEN event.start["dateTime"] ELSE event.start["date"])

\* the statuses of the errors makeRequest throws
ErrorStatuses == {0, 401, 500}
\* new Error(message): an error without a status
NewError == [status |-> 0]
RequestError(s) == [status |-> s]

\* what a makeRequest call gave
Gave(call, of, ok, status, data) ==
    [call |-> call, of |-> of, ok |-> ok, status |-> status, data |-> data]

ApiResult(kind, value, error) == [kind |-> kind, value |-> value, error |-> error]
NoResult == ApiResult("none", <<>>, NewError)
NoResults == [calendar |-> FALSE, photos |-> FALSE, tokenStatus |-> "unknown", errors |-> 0]

ApiInit ==
    /\ api_op = "none"
    /\ api_pc = "idle"
    /\ api_in = <<>>
    /\ targetCalendars = <<>>
    /\ calIdx = 0
    /\ allEvents = <<>>
    /\ results = NoResults
    /\ api_result = NoResult

\* a client none of whose methods is called
ApiQuiet == ApiInit

\* allEvents.sort((a, b) => aStart - bStart): the sort is stable
InsertByStart(sorted, event) ==
    LET before == Cardinality({i \in 1..Len(sorted) :
                                  StartValue(sorted[i]) <= StartValue(event)})
    IN SubSeq(sorted, 1, before) \o <<event>> \o SubSeq(sorted, before + 1, Len(sorted))
RECURSIVE SortByStart(_)
SortByStart(events) ==
    IF events = <<>> THEN <<>>
    ELSE InsertByStart(SortByStart(SubSeq(events, 1, Len(events) - 1)),
                       events[Len(events)])

\* a filter that takes a calendar only when its summary is an entry
IsConfiguredExact(cal) ==
    \E t \in 1..Len(CALENDARS_TO_INCLUDE) : cal.summary = CALENDARS_TO_INCLUDE[t]

\* CALENDARS_TO_INCLUDE.some(target =>
\*     cal.summary.includes(target) || cal.id.includes(target))
IsConfigured(cal) ==
    \E t \in 1..Len(CALENDARS_TO_INCLUDE) :
        \/ includes(cal.summary, CALENDARS_TO_INCLUDE[t])
        \/ includes(cal.id, CALENDARS_TO_INCLUDE[t])

\* calendars.filter(...)
RECURSIVE FilterConfigured(_)
FilterConfigured(calendars) ==
    IF calendars = <<>> THEN <<>>
    ELSE (IF IsConfigured(Head(calendars)) THEN <<Head(calendars)>> ELSE <<>>)
         \o FilterConfigured(Tail(calendars))

\* events.map(event => ({..., calendarId}))
WithCalendar(events, calendarId) ==
    [i \in 1..Len(events) |->
        [id |-> events[i].id, start |-> events[i].start, calendarId |-> calendarId]]

\* getCalendarList and getCalendarEvents rethrow what makeRequest threw as
\* new Error(`... fetch failed: ${error.message}`)
Rewrap(error) == NewError

\* getAllCalendarEvents() up to await this.getCalendarList()
getAllCalendarEvents ==
    /\ api_pc = "idle"
    /\ api_op' = "getAllCalendarEvents"
    /\ api_pc' = "calendarList"
    /\ UNCHANGED <<api_in, targetCalendars, calIdx, allEvents, results, api_result>>
    /\ UNCHANGED notApi

\* the for loop ended: sort and return
ReturnEvents(events) ==
    /\ api_pc' = "done"
    /\ api_result' = ApiResult("returned", SortByStart(events), NewError)

\* the for loop goes on to the calendar after position k, if there is one
NextCalendar(k, calendars, events) ==
    /\ allEvents' = events
    /\ IF k < Len(calendars)
       THEN /\ calIdx' = k + 1
            /\ api_pc' = "calendarEvents"
            /\ UNCHANGED api_result
       ELSE /\ calIdx' = k
            /\ ReturnEvents(events)

\* the calendar list arrived
CalendarListResolve(calendars) ==
    /\ api_op = "getAllCalendarEvents"
    /\ api_pc = "calendarList"
    /\ api_in' = Append(api_in, Gave("calendarList", <<>>, TRUE, 200, calendars))
    /\ targetCalendars' = FilterConfigured(calendars)
    /\ NextCalendar(0, targetCalendars', <<>>)
    /\ UNCHANGED <<api_op, results>>
    /\ UNCHANGED notApi

\* the calendar list request failed: getCalendarList throws, and the outer
\* catch throws on
CalendarListReject(s) ==
    /\ api_op = "getAllCalendarEvents"
    /\ api_pc = "calendarList"
    /\ api_in' = Append(api_in, Gave("calendarList", <<>>, FALSE, s, <<>>))
    /\ api_pc' = "done"
    /\ api_result' = ApiResult("thrown", <<>>, Rewrap(Rewrap(RequestError(s))))
    /\ UNCHANGED <<api_op, targetCalendars, calIdx, allEvents, results>>
    /\ UNCHANGED notApi

\* the events of the calendar at calIdx arrived
CalendarEventsResolve(events) ==
    /\ api_pc = "calendarEvents"
    /\ api_in' = Append(api_in, Gave("calendarEvents", targetCalendars[calIdx].id, TRUE, 200, events))
    /\ NextCalendar(calIdx, targetCalendars,
                    allEvents \o WithCalendar(events, targetCalendars[calIdx].id))
    /\ UNCHANGED <<api_op, targetCalendars, results>>
    /\ UNCHANGED notApi

\* a per-calendar failure that is thrown on
CalendarEventsRejectThrows(s) ==
    /\ api_pc = "calendarEvents"
    /\ api_in' = Append(api_in, Gave("calendarEvents", targetCalendars[calIdx].id, FALSE, s, <<>>))
    /\ api_pc' = "done"
    /\ api_result' = ApiResult("thrown", <<>>, Rewrap(Rewrap(RequestError(s))))
    /\ UNCHANGED <<api_op, targetCalendars, calIdx, allEvents, results>>
    /\ UNCHANGED notApi

\* the events request of the calendar at calIdx failed: the inner catch
\* logs it and the loop goes on
CalendarEventsReject(s) ==
    /\ api_pc = "calendarEvents"
    /\ api_in' = Append(api_in, Gave("calendarEvents", targetCalendars[calIdx].id, FALSE, s, <<>>))
    /\ NextCalendar(calIdx, targetCalendars, allEvents)
    /\ UNCHANGED <<api_op, targetCalendars, results>>
    /\ UNCHANGED notApi

\* what a photo search or the album list may return
PhotoResponses == {<<>>, <<"photo1">>, <<"photo1", "photo2">>}

\* getDefaultAlbumPhotos() up to its first await: with DEFAULT_PHOTOS_ALBUM
\* the starred photos are asked for
getDefaultAlbumPhotos ==
    /\ api_pc = "idle"
    /\ api_op' = "getDefaultAlbumPhotos"
    /\ api_pc' = IF toLowerCase(DEFAULT_PHOTOS_ALBUM) = "recent" THEN "recentPhotos"
                 ELSE IF toLowerCase(DEFAULT_PHOTOS_ALBUM) = "favorites" THEN "starredPhotos"
                 ELSE "photoAlbums"
    /\ UNCHANGED <<api_in, targetCalendars, calIdx, allEvents, results, api_result>>
    /\ UNCHANGED notApi

\* getStarredPhotos() returned the photos
StarredPhotosResolve(photos) ==
    /\ api_pc = "starredPhotos"
    /\ api_in' = Append(api_in, Gave("starredPhotos", <<>>, TRUE, 200, photos))
    /\ api_pc' = "done"
    /\ api_result' = ApiResult("returned", photos, NewError)
    /\ UNCHANGED <<api_op, targetCalendars, calIdx, allEvents, results>>
    /\ UNCHANGED notApi

\* a catch block that throws the error on
StarredPhotosRejectThrows(s) ==
    /\ api_pc = "starredPhotos"
    /\ api_in' = Append(api_in, Gave("starredPhotos", <<>>, FALSE, s, <<>>))
    /\ api_pc' = "done"
    /\ api_result' = ApiResult("thrown", <<>>, Rewrap(RequestError(s)))
    /\ UNCHANGED <<api_op, targetCalendars, calIdx, allEvents, results>>
    /\ UNCHANGED notApi

\* getStarredPhotos() threw: the catch block calls getRecentPhotos
StarredPhotosReject(s) ==
    /\ api_pc = "starredPhotos"
    /\ api_in' = Append(api_in, Gave("starredPhotos", <<>>, FALSE, s, <<>>))
    /\ api_pc' = "recentPhotos"
    /\ UNCHANGED <<api_op, targetCalendars, calIdx, allEvents, results, api_result>>
    /\ UNCHANGED notApi

\* getRecentPhotos() returned the photos
RecentPhotosResolve(photos) ==
    /\ api_pc = "recentPhotos"
    /\ api_in' = Append(api_in, Gave("recentPhotos", <<>>, TRUE, 200, photos))
    /\ api_pc' = "done"
    /\ api_result' = ApiResult("returned", photos, NewError)
    /\ UNCHANGED <<api_op, targetCalendars, calIdx, allEvents, results>>
    /\ UNCHANGED notApi

\* getRecentPhotos() threw, in the catch block: getDefaultAlbumPhotos throws
RecentPhotosReject(s) ==
    /\ api_pc = "recentPhotos"
    /\ api_in' = Append(api_in, Gave("recentPhotos", <<>>, FALSE, s, <<>>))
    /\ api_pc' = "done"
    /\ api_result' = ApiResult("thrown", <<>>, Rewrap(RequestError(s)))
    /\ UNCHANGED <<api_op, targetCalendars, calIdx, allEvents, results>>
    /\ UNCHANGED notApi

\* testAccess() up to await this.getCalendarList()
testAccess ==
    /\ api_pc = "idle"
    /\ api_op' = "testAccess"
    /\ api_pc' = "calendarList"
    /\ results' = NoResults
    /\ UNCHANGED <<api_in, targetCalendars, calIdx, allEvents, api_result>>
    /\ UNCHANGED notApi

\* the calendar list arrived
TestCalendarResolve(calendars) ==
    /\ api_op = "testAccess"
    /\ api_pc = "calendarList"
    /\ api_in' = Append(api_in, Gave("calendarList", <<>>, TRUE, 200, calendars))
    /\ results' = [results EXCEPT !.calendar = TRUE, !.tokenStatus = "valid"]
    /\ api_pc' = "debugPhotos"
    /\ UNCHANGED <<api_op, targetCalendars, calIdx, allEvents, api_result>>
    /\ UNCHANGED notApi

\* the calendar list request failed with status s (0: no status): the catch
\* block of testAccess looks at the status of the error getCalendarList threw
TestCalendarReject(s) ==
    /\ api_op = "testAccess"
    /\ api_pc = "calendarList"
    /\ api_in' = Append(api_in, Gave("calendarList", <<>>, FALSE, s, <<>>))
    /\ LET error == Rewrap(RequestError(s)) IN
       results' = [results EXCEPT
                      !.calendar = FALSE,
                      !.errors = @ + 1,
                      !.tokenStatus = IF error.status = 401 THEN "expired" ELSE "error"]
    /\ api_pc' = "debugPhotos"
    /\ UNCHANGED <<api_op, targetCalendars, calIdx, allEvents, api_result>>
    /\ UNCHANGED notApi

\* testAccess ends: return results
ReturnResults(r) ==
    /\ results' = r
    /\ api_pc' = "done"
    /\ api_result' = ApiResult("returned", <<>>, NewError)

\* debugPhotosAPIAccess() returned
DebugPhotosResolve(success) ==
    /\ api_pc = "debugPhotos"
    /\ IF success
       THEN /\ api_pc' = "photoAlbums"
            /\ UNCHANGED <<results, api_result>>
       ELSE ReturnResults([results EXCEPT !.photos = FALSE, !.errors = @ + 1])
    /\ UNCHANGED <<api_op, api_in, targetCalendars, calIdx, allEvents>>
    /\ UNCHANGED notApi

\* getPhotoAlbums() returned the albums
TestAlbumsResolve(albums) ==
    /\ api_op = "testAccess"
    /\ api_pc = "photoAlbums"
    /\ api_in' = Append(api_in, Gave("photoAlbums", <<>>, TRUE, 200, albums))
    /\ ReturnResults([results EXCEPT
                         !.photos = TRUE,
                         !.tokenStatus = IF @ = "unknown" THEN "valid" ELSE @])
    /\ UNCHANGED <<api_op, targetCalendars, calIdx, allEvents>>
    /\ UNCHANGED notApi

\* getPhotoAlbums() threw
TestAlbumsReject(s) ==
    /\ api_op = "testAccess"
    /\ api_pc = "photoAlbums"
    /\ api_in' = Append(api_in, Gave("photoAlbums", <<>>, FALSE, s, <<>>))
    /\ ReturnResults([results EXCEPT !.photos = FALSE, !.errors = @ + 1])
    /\ UNCHANGED <<api_op, targetCalendars, calIdx, allEvents>>
    /\ UNCHANGED notApi

\* ------------------------------------------------------------------------
\* getAPIHealth(apis) of the API layer's entry point. apis.google may be
\* missing; its healthCheck() resolves with a status or rejects.
HealthStatuses == {"healthy", "degraded", "unhealthy"}

\* the overall health, from health.apis (API name -> what was recorded)
OverallHealth(apis) ==
    LET healthyCount == Cardinality({k \in DOMAIN apis : apis[k].status = "healthy"})
        totalCount == Cardinality(DOMAIN apis)
    IN IF healthyCount = totalCount THEN "healthy"
       ELSE IF healthyCount > 0 THEN "degraded"
       ELSE "unhealthy"

\* return health
ReturnHealth(apis) ==
    /\ api_pc' = "done"
    /\ api_result' = ApiResult("returned",
                               [apis |-> apis, overall |-> OverallHealth(apis)],
                               NewError)

\* getAPIHealth up to its first await, or to its end without apis.google
getAPIHealth(google) ==
    /\ api_pc = "idle"
    /\ api_op' = "getAPIHealth"
    /\ IF google
       THEN /\ api_pc' = "healthCheck"
            /\ UNCHANGED api_result
       ELSE ReturnHealth(EmptyObject)
    /\ UNCHANGED <<api_in, targetCalendars, calIdx, allEvents, results>>
    /\ UNCHANGED notApi

\* apis.google.healthCheck() resolved
HealthCheckResolve(status) ==
    /\ api_op = "getAPIHealth"
    /\ api_pc = "healthCheck"
    /\ api_in' = Append(api_in, Gave("healthCheck", <<>>, TRUE, 0, status))
    /\ ReturnHealth([k \in {"google"} |-> [status |-> status]])
    /\ UNCHANGED <<api_op, targetCalendars, calIdx, allEvents, results>>
    /\ UNCHANGED notApi

\* a catch block that records a failed health check as healthy
HealthCheckRejectHealthy ==
    /\ api_op = "getAPIHealth"
    /\ api_pc = "healthCheck"
    /\ api_in' = Append(api_in, Gave("healthCheck", <<>>, FALSE, 0, ""))
    /\ ReturnHealth([k \in {"google"} |-> [status |-> "healthy"]])
    /\ UNCHANGED <<api_op, targetCalendars, calIdx, allEvents, results>>
    /\ UNCHANGED notApi

\* apis.google.healthCheck() rejected: the catch block records the error
HealthCheckReject ==
    /\ api_op = "getAPIHealth"
    /\ api_pc = "healthCheck"
    /\ api_in' = Append(api_in, Gave("healthCheck", <<>>, FALSE, 0, ""))
    /\ ReturnHealth([k \in {"google"} |-> [status |-> "error"]])
    /\ UNCHANGED <<api_op, targetCalendars, calIdx, allEvents, results>>
    /\ UNCHANGED notApi

ApiNext ==
    \/ getAllCalendarEvents
    \/ \E calendars \in CalendarLists : CalendarListResolve(calendars)
    \/ \E s \in ErrorStatuses : CalendarListReject(s)
    \/ \E events \in EventResponses : CalendarEventsResolve(events)
    \/ \E s \in ErrorStatuses : CalendarEventsReject(s)
    \/ getDefaultAlbumPhotos
    \/ \E photos \in PhotoResponses : StarredPhotosResolve(photos)
    \/ \E s \in ErrorStatuses : StarredPhotosReject(s)
    \/ \E photos \in PhotoResponses : RecentPhotosResolve(photos)
    \/ \E s \in ErrorStatuses : RecentPhotosReject(s)
    \/ testAccess
    \/ \E calendars \in CalendarLists : TestCalendarResolve(calendars)
    \/ \E s \in ErrorStatuses : TestCalendarReject(s)
    \/ \E success \in BOOLEAN : DebugPhotosResolve(success)
    \/ \E albums \in PhotoResponses : TestAlbumsResolve(albums)
    \/ \E s \in ErrorStatuses : TestAlbumsReject(s)
    \/ \E google \in BOOLEAN : getAPIHealth(google)
    \/ \E status \in HealthStatuses : HealthCheckResolve(status)
    \/ HealthCheckReject

\* no makeRequest call is under way
RequestQuiet ==
    /\ rq_pc = "idle"
    /\ attempt = 0
    /\ options = OptsDefault
    /\ token = 0
    /\ lastError = NoError
    /\ thrown = NoError
    /\ log = <<>>

\* a browser session whose manager is left alone
AuthQuiet ==
    /\ isWebView = FALSE
    /\ hasNativeAuth = FALSE
    /\ isFireTV = FALSE
    /\ currentUser = Null
    /\ isSignedIn = FALSE
    /\ nativeAuthAttempted = FALSE
    /\ savedUser = Null
    /\ ui = Show("none")
    /\ init_pc = "start"
    /\ timers = <<>>
    /\ ftvDevice = 0
    /\ ftvFallback = 0
    /\ signInDevice = 0
    /\ signInWeb = 0
    /\ now = 1
    /\ last = Last("constructor", Null, "")

\* The AuthManager alone
AuthStart == AuthInit /\ RequestQuiet /\ SettingsQuiet /\ RateQuiet /\ ApiQuiet
AuthSpec == AuthStart /\ [][AuthNext]_vars

\* makeRequest alone
RequestStart == RequestInit /\ AuthQuiet /\ SettingsQuiet /\ RateQuiet /\ ApiQuiet
Spec == RequestStart /\ [][RequestNext]_vars

\* The settings modal alone
SettingsStart == SettingsInit /\ RequestQuiet /\ AuthQuiet /\ RateQuiet /\ ApiQuiet
SettingsSpec == SettingsStart /\ [][SettingsNext]_vars

\* The rate limiter with calls in flight together
RateStart == RateInit /\ RequestQuiet /\ AuthQuiet /\ SettingsQuiet /\ ApiQuiet
RateSpec == RateStart /\ [][RateNext]_vars

\* The methods built on makeRequest, one call at a time
ApiStart == ApiInit /\ RequestQuiet /\ AuthQuiet /\ SettingsQuiet /\ RateQuiet
ApiSpec == ApiStart /\ [][ApiNext]_vars

\* Under FairSpec every pending fetch, token refresh and timer completes.
FairSpec == Spec /\ WF_vars(RequestNext)

\* ------------------------------------------------------------------------
\* What the log of a call says
Events(e) == {i \in 1..Len(log) : log[i].ev = e}
FetchCount == Cardinality(Events("fetch"))
RefreshCount == Cardinality(Events("refresh"))
Finished == rq_pc \in {"returned", "thrown"}

\* the delay the backoff policy prescribes after attempt k
PolicyDelay(k) == IF 1000 * 2^k <= 10000 THEN 1000 * 2^k ELSE 10000
DefaultDelays == <<1000, 2000, 4000>>

\* log[i] is a failure of attempt k that is followed by a backoff of the
\* policy's length and then by attempt k+1
BackedOffAndRetried(i) ==
    LET k == log[i].at IN
    /\ i + 1 <= Len(log)
    /\ log[i + 1].ev = "wait"
    /\ log[i + 1].at = k
    /\ log[i + 1].n = PolicyDelay(k)
    /\ log[i + 1].n = DefaultDelays[k + 1]
    /\ IF i + 1 = Len(log)
       THEN \/ rq_pc = "waiting" /\ attempt = k
            \/ rq_pc = "loop" /\ attempt = k + 1
       ELSE /\ log[i + 2].at = k + 1
            /\ log[i + 2].ev \in {"fetch", "neterr"}

\* log[i] is the last thing the call did: it threw an error of status s
ThrownRightAfter(i, s) ==
    /\ i = Len(log)
    /\ rq_pc = "thrown"
    /\ thrown = s

\* C1: in one makeRequest call the attempt counter stays within
\* 0..maxRetries and fetch is invoked at most maxRetries+1 times (4 with the
\* defaults), whatever the responses, failures and refresh outcomes are.
C1_AttemptsBounded ==
    /\ attempt \in 0..maxRetries
    /\ FetchCount <= maxRetries + 1
    /\ FetchCount <= 4

\* a call that used every attempt: four fetches, then the error is thrown
C1_Witness ==
    /\ rq_pc = "thrown"
    /\ attempt = maxRetries
    /\ FetchCount = maxRetries + 1

\* C2: every makeRequest call that was started eventually returns the data
\* or throws, when every fetch, refresh and timer it waits on completes.
C2_Terminates == (rq_pc # "idle") ~> Finished

\* a call that returned the data on its last attempt, after three retries
C2_Witness ==
    /\ rq_pc = "returned"
    /\ attempt = maxRetries
    /\ FetchCount >= 2

\* C3 as stated: refreshGoogleAccessToken is invoked at most once within one
\* makeRequest call.
C3_SingleRefreshPerCall == RefreshCount <= 1

\* C3 amended: every 401 received on a non-final attempt starts exactly one
\* refresh, a refresh is started by nothing else, and one call invokes
\* refreshGoogleAccessToken at most maxRetries times (3 with the defaults),
\* at most once per attempt.
C3_SingleRefreshPer401 ==
    /\ RefreshCount <= maxRetries
    /\ \A i \in Events("refresh") :
          /\ log[i].at < maxRetries
          /\ i > 1
          /\ log[i - 1].ev = "resp"
          /\ log[i - 1].n = 401
          /\ log[i - 1].at = log[i].at
    /\ \A i, j \in Events("refresh") : log[i].at = log[j].at => i = j
    /\ \A i \in Events("resp") :
          (log[i].n = 401 /\ log[i].at < maxRetries)
              => (i + 1 <= Len(log) /\ log[i + 1].ev = "refresh")

\* a call that refreshed the token after each of three 401 responses
C3_Witness == RefreshCount = 3

C5_BackoffOnServerError ==
    \A i \in Events("resp") :
        (log[i].n = 429 \/ log[i].n >= 500)
            => IF log[i].at < maxRetries
               THEN BackedOffAndRetried(i)
               ELSE ThrownRightAfter(i, log[i].n)

\* three server errors were each waited out (1000, 2000, 4000 ms) and the
\* fourth was thrown
C5_Witness ==
    /\ rq_pc = "thrown"
    /\ thrown = 503
    /\ Cardinality({i \in Events("resp") : log[i].n \in {429, 500, 503}}) = 4
    /\ {log[i].n : i \in Events("wait")} = {1000, 2000, 4000}

\* C6: a failure without an HTTP status on attempt k < maxRetries is
\* followed by the same backoff and by attempt k+1; on the final attempt it
\* is thrown to the caller.
C6_BackoffOnNetworkError ==
    \A i \in Events("neterr") :
        IF log[i].at < maxRetries
        THEN BackedOffAndRetried(i)
        ELSE ThrownRightAfter(i, 0)

\* fetch rejected on all four attempts: three backoffs, then the error
C6_Witness ==
    /\ rq_pc = "thrown"
    /\ thrown = 0
    /\ Cardinality({i \in Events("neterr") : log[i].n = 2}) = 4
    /\ {log[i].n : i \in Events("wait")} = {1000, 2000, 4000}

\* C7: every request makeRequest sends carries the header
\* Authorization: Bearer <the current access token>, whatever options the
\* caller passed.
C7_EveryRequestAuthorized ==
    \A i \in Events("fetch") :
        /\ Has(log[i].req, "headers")
        /\ Has(log[i].req["headers"], "Authorization")
        /\ log[i].req["headers"]["Authorization"] = Bearer(log[i].n)

\* ------------------------------------------------------------------------
\* log[i] is the pause after a token refresh that succeeded
IsRefreshPause(i) ==
    /\ log[i].ev = "wait"
    /\ Has(log[i].req, "token")

C16_RetrySendsRefreshedToken ==
    \A i \in 1..Len(log) :
        (IsRefreshPause(i) /\ i + 1 <= Len(log) /\ log[i + 1].ev = "fetch") =>
            /\ log[i + 1].n = log[i].req["token"]
            /\ Has(log[i + 1].req, "headers")
            /\ Has(log[i + 1].req["headers"], "Authorization")
            /\ log[i + 1].req["headers"]["Authorization"] = Bearer(log[i].req["token"])

\* the token that is read for the attempt after a refresh is the refreshed one
C16_RetryReadsRefreshedToken ==
    \A i \in 1..Len(log) :
        (IsRefreshPause(i) /\ i + 1 <= Len(log) /\ log[i + 1].ev = "fetch") =>
            log[i + 1].n = log[i].req["token"]

\* ------------------------------------------------------------------------
\* Claims about the methods built on makeRequest

Range(seq) == {seq[i] : i \in 1..Len(seq)}
\* text contains the entry
ContainsEntry(text, entry) ==
    \E i \in 1..Len(text) : \E j \in i..Len(text) : SubSeq(text, i, j) = entry
ConfiguredEntries == {<<"jwlerch@gmail.com">>, <<"Veeva">>}
\* the calendars of the list that the configuration names, by position
Configured(listed) ==
    {k \in 1..Len(listed) :
        \E entry \in ConfiguredEntries :
            ContainsEntry(listed[k].summary, entry) \/ ContainsEntry(listed[k].id, entry)}
\* the events requests that were made, and those that succeeded
EventsRequests == {i \in 1..Len(api_in) : api_in[i].call = "calendarEvents"}
\* the events that request i gave, each with its calendar
EventsGiven(i) ==
    {[id |-> e.id, start |-> e.start, calendarId |-> api_in[i].of] :
        e \in Range(api_in[i].data)}
EventsDone == api_op = "getAllCalendarEvents" /\ api_pc = "done"

\* C17: getAllCalendarEvents throws only when the calendar list cannot be
\* fetched; when the events request of a calendar fails, the call returns
\* and the events of every calendar whose request succeeded are in the list.
C17_ToleratesCalendarFailures ==
    EventsDone =>
        /\ (api_result.kind = "thrown") = ~api_in[1].ok
        /\ (api_result.kind = "returned") = api_in[1].ok
        /\ \A i \in EventsRequests :
               api_in[i].ok => EventsGiven(i) \subseteq Range(api_result.value)

\* one calendar failed, another gave events, and these are returned
C17_Witness ==
    /\ EventsDone
    /\ api_result.kind = "returned"
    /\ \E i \in EventsRequests : ~api_in[i].ok
    /\ \E i \in EventsRequests : api_in[i].ok /\ EventsGiven(i) # {}
    /\ api_result.value # <<>>

\* C18: the list getAllCalendarEvents returns holds exactly the events of
\* the calendars whose summary or id contains an entry of
\* CALENDARS_TO_INCLUDE and whose request succeeded, in non-decreasing order
\* of start (start.dateTime, or start.date of an all-day event).
C18_ExactlyConfiguredEventsSorted ==
    (EventsDone /\ api_result.kind = "returned") =>
        LET listed == api_in[1].data
            wanted == Configured(listed)
            given == UNION {EventsGiven(i) : i \in {j \in EventsRequests : api_in[j].ok}}
            returned == api_result.value
        IN /\ {api_in[i].of : i \in EventsRequests} = {listed[k].id : k \in wanted}
           /\ Cardinality(EventsRequests) = Cardinality(wanted)
           /\ Range(returned) = given
           /\ Len(returned) = Cardinality(given)
           /\ \A i \in 1..Len(returned) : \A j \in 1..Len(returned) :
                  i < j => StartValue(returned[i]) <= StartValue(returned[j])

\* a list with a calendar that is not configured and three that are: one
\* of these failed, the events of the other two had to be interleaved
C18_Witness ==
    /\ EventsDone
    /\ api_result.kind = "returned"
    /\ Len(api_in[1].data) = 4
    /\ Cardinality(EventsRequests) = 3
    /\ \E i \in EventsRequests : ~api_in[i].ok
    /\ Len(api_result.value) = 4
    /\ api_result.value # allEvents

PhotosDone == api_op = "getDefaultAlbumPhotos" /\ api_pc = "done"
FailedBeforeRecent ==
    {i \in 1..Len(api_in) :
        api_in[i].call \in {"starredPhotos", "photoAlbums", "albumPhotos"} /\ ~api_in[i].ok}
RecentCalls == {i \in 1..Len(api_in) : api_in[i].call = "recentPhotos"}

\* C19: when the starred-photos request (or the album listing, or the
\* album-photos request) throws, getRecentPhotos is called and its result
\* returned; getDefaultAlbumPhotos throws only when getRecentPhotos throws.
C19_FallsBackToRecent ==
    api_op = "getDefaultAlbumPhotos" =>
        /\ \A i \in FailedBeforeRecent :
               \/ api_pc = "recentPhotos" /\ i = Len(api_in)
               \/ /\ PhotosDone
                  /\ i + 1 \in RecentCalls
                  /\ i + 1 = Len(api_in)
                  /\ api_in[i + 1].ok =>
                         /\ api_result.kind = "returned"
                         /\ api_result.value = api_in[i + 1].data
        /\ (PhotosDone /\ api_result.kind = "thrown") =>
               /\ Len(api_in) \in RecentCalls
               /\ ~api_in[Len(api_in)].ok

\* the starred photos failed and the recent photos were returned instead
C19_Witness ==
    /\ PhotosDone
    /\ FailedBeforeRecent = {1}
    /\ RecentCalls = {2}
    /\ api_result.kind = "returned"
    /\ api_result.value = <<"photo1", "photo2">>

\* C20: testAccess reports tokenStatus 'expired' when its Calendar request
\* failed with HTTP 401, 'error' when it failed otherwise, and 'valid' when
\* it succeeded.
C20_TokenStatusByCalendarOutcome ==
    (api_op = "testAccess" /\ Len(api_in) >= 1) =>
        results.tokenStatus =
            IF api_in[1].ok THEN "valid"
            ELSE IF api_in[1].status = 401 THEN "expired" ELSE "error"

\* ------------------------------------------------------------------------
\* Claims about the AuthManager

UserFields == {"id", "name", "email", "picture", "signedInAt", "authMethod"}

\* the authMethod each completing handler records
MethodOf(op) ==
    CASE op = "handleNativeAuthResult" -> "native"
      [] op = "handleWebAuthResult" -> "web"
      [] op = "deviceFlow" -> "device_flow"
      [] op = "signInDeviceFlow" -> "device_flow"
      [] op = "fallback" -> "fire_tv_fallback"
      [] OTHER -> "webview"

ProviderSignIns ==
    {"handleNativeAuthResult", "handleWebAuthResult", "deviceFlow",
     "signInDeviceFlow", "fallback"}

\* C8: right after a successful sign-in completion (native or web result
\* with success and a user, device flow, Fire TV fallback, createWebViewUser)
\* isAuthenticated() is true, currentUser holds id, name, email, picture,
\* signedInAt and the authMethod of the provider that succeeded, and the
\* user saved in storage is that same record.
C8_SignInCompletes ==
    /\ (last.op \in ProviderSignIns /\ last.did = "signedIn") =>
          /\ isAuthenticated
          /\ DOMAIN currentUser = UserFields
          /\ currentUser.id = last.arg.id
          /\ currentUser.name = last.arg.name
          /\ currentUser.email = last.arg.email
          /\ currentUser.picture = last.arg.picture
          /\ currentUser.signedInAt = now
          /\ currentUser.authMethod = MethodOf(last.op)
          /\ GetSavedUser = currentUser
    /\ last.op = "createWebViewUser" =>
          /\ isAuthenticated
          /\ DOMAIN currentUser = UserFields
          /\ currentUser.signedInAt = now
          /\ currentUser.authMethod = "webview"
          /\ GetSavedUser = currentUser

\* the Fire TV fallback signed in user 2 over a user an earlier session left
C8_Witness ==
    /\ last.op = "fallback"
    /\ last.did = "signedIn"
    /\ last.arg.id = 2
    /\ currentUser.authMethod = "fire_tv_fallback"
    /\ savedUser = currentUser

\* C9: right after signOut returns, from any state, getUser() is null,
\* isAuthenticated() is false, nativeAuthAttempted is false, storage holds
\* no saved user, and a sign-in prompt is shown: the WebView prompt in a
\* WebView without native auth, the regular prompt otherwise.
C9_SignOutClears ==
    last.op = "signOut" =>
        /\ getUser = Null
        /\ ~isAuthenticated
        /\ ~isSignedIn
        /\ ~nativeAuthAttempted
        /\ GetSavedUser = Null
        /\ ui.kind = IF isWebView /\ ~hasNativeAuth THEN "webViewPrompt" ELSE "signInPrompt"

\* a sign-out of a signed-in user, after a native attempt, in a WebView
\* that has native auth
C9_Witness ==
    /\ last.op = "signOut"
    /\ last.arg # Null
    /\ last.did = "attempted"
    /\ isWebView
    /\ hasNativeAuth
    /\ ui.kind = "signInPrompt"

\* C10: when web auth initialization fails during init and storage holds a
\* saved user, the manager is signed in as that saved user and no
\* authentication error is shown; an error or an alternative flow is used
\* only when there is no saved user.
C10_SavedUserFallback ==
    last.op = "handleAuthFailure" =>
        IF last.arg # Null
        THEN /\ isAuthenticated
             /\ currentUser = last.arg
             /\ GetSavedUser = last.arg
             /\ ui.kind = "signedIn"
             /\ last.did = "saved"
        ELSE /\ last.did \in {"fireTV", "webview", "error"}
             /\ last.did = "error" => ui.kind = "authError"
             /\ last.did = "fireTV" => ftvDevice > 0

\* web auth initialization failed and the manager fell back to a user that
\* was saved while init was waiting
C10_Witness ==
    /\ last.op = "handleAuthFailure"
    /\ last.arg # Null
    /\ last.arg.id = 2
    /\ isAuthenticated
    /\ init_pc = "done"

\* ------------------------------------------------------------------------
\* The ways the modal is cancelled: the Escape key, the Cancel button (by
\* click, or by Enter on the footer), the close button, a click on the overlay
CancelRoutes == {"Escape", "escape", "Enter", "enter", "cancelBtn", "close-btn", "overlay"}

\* C11: when the modal was opened with showSettings and is cancelled, after
\* whatever setSetting changes and navigation keys, the settings object
\* equals its value at the moment showSettings opened the modal.
C11_CancelRestores ==
    st_last.op = "handleCancel" =>
        /\ st_last.via \in CancelRoutes
        /\ settings = atShow

\* a cancel by the Escape key that undid changes to the settings
C11_Witness ==
    /\ st_last.op = "handleCancel"
    /\ st_last.via = "Escape"
    /\ st_last.changed
    /\ settings = atShow
    /\ ~isSettingsVisible

\* C12: the settings in storage change only in a step of handleSave: not
\* in setSetting, a change handler, a navigation key, cancel or hideSettings.
C12_OnlySavePersists ==
    [][stored' # stored => st_last'.op = "handleSave"]_vars

\* a save that wrote changed settings to storage and closed the modal
C12_Witness ==
    /\ st_last.op = "handleSave"
    /\ stored = settings
    /\ stored # atShow
    /\ ~isSettingsVisible

\* the provider the environment selects for init and for signIn
InitProvider ==
    IF hasNativeAuth THEN "native" ELSE IF isWebView THEN "webview" ELSE "web"
SignInProvider ==
    IF hasNativeAuth THEN "native" ELSE IF isFireTV THEN "deviceFlow" ELSE "web"

\* C13: init uses native auth whenever hasNativeAuth (also inside a
\* WebView), else the WebView prompt when isWebView, else web auth; signIn
\* uses native sign-in when native auth is there, else the device flow on
\* Fire TV, else web sign-in; a call starts the selected provider and no other.
C13_ProviderPrecedence ==
    [][/\ (init_pc = "start" /\ init_pc' # "start") =>
            /\ last'.did = InitProvider
            /\ (init_pc' = "nativeInit") = (InitProvider = "native")
            /\ (init_pc' = "webInit") = (InitProvider = "web")
            /\ (init_pc' = "done" /\ ui' = Show("webViewPrompt"))
                   = (InitProvider = "webview")
       /\ last'.op = "signIn" =>
            /\ last'.did = SignInProvider
            /\ signInDevice' = signInDevice + (IF SignInProvider = "deviceFlow" THEN 1 ELSE 0)
            /\ signInWeb' = signInWeb + (IF SignInProvider = "web" THEN 1 ELSE 0)
            /\ Len(timers') = Len(timers) + (IF SignInProvider = "native" /\ isFireTV THEN 1 ELSE 0)
      ]_vars

\* init in a WebView that has native auth: the native provider is started
C13_Witness ==
    /\ last.op = "init"
    /\ isWebView
    /\ hasNativeAuth
    /\ last.did = "native"
    /\ init_pc = "nativeInit"

\* C14: any two fetches issued through makeRequest on one client start at
\* least minRequestInterval (100 ms) apart, also when several calls are in
\* flight together and interleave at their awaits.
C14_FetchesSpaced ==
    \A i \in 1..Len(fetchTimes) : \A j \in 1..Len(fetchTimes) :
        i < j => fetchTimes[j] - fetchTimes[i] >= minRequestInterval

\* ------------------------------------------------------------------------
\* C21: on Fire TV with native auth each signIn arms a 3 s timeout; when it
\* fires, handleFireTVAuthFailure is started exactly if no native auth
\* result arrived for that sign-in and no user is signed in; if the native
\* result arrived first, the timeout starts nothing.
C21_TimeoutStartsAlternatives ==
    last.op = "timeout" =>
        (last.did = "fireTV") = (~last.arg.arrived /\ ~last.arg.signedIn)

\* C22: a run of handleFireTVAuthFailure whose device flow and fallback
\* completed ends with a user signed in or with an authentication error
\* shown, never with no user and no error.
C22_FireTVFailureEndsSignedInOrError ==
    (last.op \in {"deviceFlow", "fallback"} /\ last.did # "fallback") =>
        isAuthenticated \/ ui.kind = "authError"

\* C23: a failed native result on a device that is not Fire TV shows the
\* provider's error text, or 'Native authentication failed' when the result
\* carries none, and shows nothing when the error is 'Sign-in was
\* cancelled'; currentUser, isSignedIn and storage stay as they were.
C23_NativeFailureShowsError ==
    [][(last'.op = "handleNativeAuthResult" /\ last'.did # "signedIn" /\ ~isFireTV) =>
           /\ UNCHANGED userVars
           /\ ui' = IF last'.arg.error = "Sign-in was cancelled" THEN ui
                    ELSE IF last'.arg.error # "" THEN ShowAuthError(last'.arg.error)
                    ELSE ShowAuthError("Native authentication failed")
      ]_vars

\* C29: in every reachable state of the AuthManager isSignedIn implies
\* that currentUser is not null, so isAuthenticated() equals isSignedIn.
C29_SignedInHasUser ==
    /\ isSignedIn => currentUser # Null
    /\ isAuthenticated = isSignedIn

\* init restored a saved user and checkNativeUser then replaced
\* currentUser by the native user: signed in, with a user
C29_Witness ==
    /\ isSignedIn
    /\ isAuthenticated
    /\ last.op = "checkNativeUser"
    /\ last.did = "found"
    /\ currentUser.authMethod = "native"
    /\ savedUser = FormerUser

\* C30: whenever the auth UI was last put into the signed-in state,
\* isAuthenticated() is true and storage holds a saved user equal to
\* currentUser, also when checkNativeUser found a native user during init.
C30_SignedInStateBacked ==
    ui.kind = "signedIn" =>
        /\ isAuthenticated
        /\ GetSavedUser = currentUser

\* ------------------------------------------------------------------------
\* what a settings step leaves alone when it changes nothing of the modal
modalVars == <<settings, stored, originalSettings, isSettingsVisible, overlay,
               currentCategory, currentFocus, sleepOpen, bodyTheme, atShow>>

\* C24: with focus in the settings footer, ArrowLeft toggles the focused
\* footer button between Cancel (0) and Save (1), as ArrowRight and
\* ArrowDown do, and focus stays in the footer.
C24_FooterArrowsToggle ==
    [][(/\ isSettingsVisible
        /\ currentFocus.type = "footer"
        /\ st_last'.op \in {"navigateLeft", "navigateRight", "navigateDown"}) =>
           /\ currentFocus' = Focus("footer", 1 - currentFocus.index)
           /\ currentCategory' = currentCategory
      ]_vars

\* the keys handleSettingsKeyPress handles
HandledKeys == {"Escape", "escape", "ArrowUp", "up", "ArrowDown", "down",
                "ArrowLeft", "left", "ArrowRight", "right", "Enter", "enter"}

C26_ShowSettingsReentry ==
    [][(st_last'.op = "showSettings" /\ isSettingsVisible) =>
           /\ UNCHANGED modalVars
           /\ restoreSettings(originalSettings') = atShow
      ]_vars

\* showSettings was called again after the user changed a setting and moved
\* to the footer
C26_Witness ==
    /\ st_last.op = "showSettings"
    /\ isSettingsVisible
    /\ settings # atShow
    /\ currentFocus.type = "footer"
    /\ currentCategory # "display"

\* C27: if saveToStorage throws during handleSave the modal stays as it is
\* (isSettingsVisible remains true), no 'settingsUpdated' event is
\* dispatched, and the settings and the cancel snapshot are unchanged, so a
\* cancel still restores the settings of the open.
C27_FailedSaveKeepsModal ==
    [][st_last'.op = "handleSaveFailed" =>
           /\ UNCHANGED <<isSettingsVisible, overlay, settings, originalSettings>>
           /\ st_last'.events = <<>>
           /\ isSettingsVisible => restoreSettings(originalSettings') = atShow'
      ]_vars

\* Enter on the Save button, saveToStorage threw: the modal is still open
\* with the changed settings
C27_Witness ==
    /\ st_last.op = "handleSaveFailed"
    /\ st_last.via = "Enter"
    /\ isSettingsVisible
    /\ overlay = "active"
    /\ settings # atShow
    /\ stored # settings

\* ------------------------------------------------------------------------
\* what getAPIHealth returned, and the APIs it recorded as healthy
HealthReturned == api_op = "getAPIHealth" /\ api_pc = "done"
HealthyApis(health) == {k \in DOMAIN health.apis : health.apis[k].status = "healthy"}
\* a healthCheck that threw is recorded with status 'error'
ThrownRecorded(health) ==
    \A i \in 1..Len(api_in) :
        (api_in[i].call = "healthCheck" /\ ~api_in[i].ok) =>
            /\ "google" \in DOMAIN health.apis
            /\ health.apis["google"].status = "error"
            /\ "google" \notin HealthyApis(health)

\* C28, as stated: overall is 'healthy' exactly when every checked API
\* reports 'healthy', 'degraded' when at least one but not all do, and
\* 'unhealthy' when none does; a healthCheck that throws is recorded with
\* status 'error' and counts as not healthy.
C28_OverallHealth ==
    HealthReturned =>
        LET health == api_result.value
            healthy == HealthyApis(health)
        IN /\ (health.overall = "healthy") = (healthy = DOMAIN health.apis)
           /\ (healthy # {} /\ healthy # DOMAIN health.apis) => health.overall = "degraded"
           /\ healthy = {} => health.overall = "unhealthy"
           /\ ThrownRecorded(health)

\* C28, amended: overall is 'healthy' exactly when every checked API
\* reports 'healthy' (also when no API was checked), 'degraded' exactly when
\* at least one but not all do, and 'unhealthy' exactly when at least one
\* API was checked and none reports 'healthy'; a healthCheck that throws is
\* recorded with status 'error' and counts as not healthy.
C28_OverallHealthOfChecked ==
    HealthReturned =>
        LET health == api_result.value
            healthy == HealthyApis(health)
        IN /\ (health.overall = "healthy") = (healthy = DOMAIN health.apis)
           /\ (health.overall = "degraded") =
                  (healthy # {} /\ healthy # DOMAIN health.apis)
           /\ (health.overall = "unhealthy") =
                  (healthy = {} /\ DOMAIN health.apis # {})
           /\ ThrownRecorded(health)

\* the health check of the Google client threw: recorded as 'error', and the
\* overall health is 'unhealthy'
C28_Witness ==
    /\ HealthReturned
    /\ Len(api_in) = 1
    /\ ~api_in[1].ok
    /\ api_result.value.apis["google"].status = "error"
    /\ api_result.value.overall = "unhealthy"

\* ------------------------------------------------------------------------
\* a step of init() that showed a sign-in prompt: the WebView prompt of the
\* WebView branch, the prompt of checkNativeUser, the prompt after
\* webAuth.init(), or the WebView prompt of handleAuthFailure
InitShowsPrompt ==
    /\ init_pc # "done"
    /\ init_pc' # init_pc
    /\ ui'.kind \in {"signInPrompt", "webViewPrompt"}
    /\ \/ last'.op = "init" /\ last'.did \in {"webview", "prompt"}
       \/ last'.op = "checkNativeUser" /\ last'.did = "prompt"
       \/ last'.op = "handleAuthFailure" /\ last'.did = "webview"

\* C31: during init a sign-in prompt (showSignInPrompt or
\* showWebViewAuthPrompt) is shown only when no user is signed in: when
\* checkExistingAuth restored a saved user, no branch of init shows one.
C31_InitPromptsOnlySignedOut ==
    [][InitShowsPrompt => ~isSignedIn']_vars

====
